---------------------------- MODULE Spec2Model ----------------------------
(***************************************************************************)
(* Cross-reference validation of requirement documents                     *)
(* (fire/starlark/validate_cross_references.py).                           *)
(*                                                                         *)
(* A Python str is a sequence of one-character strings, so that strip,     *)
(* split, startswith, the regular expressions and sorted() are computed    *)
(* on the characters as the code computes them.  A Python value that the   *)
(* code inspects with isinstance or compares across types is a record      *)
(* [t |-> type, v |-> value].                                              *)
(***************************************************************************)
EXTENDS Naturals, Integers, Sequences, FiniteSets, TLC

(***************************************************************************)
(* Characters, in code point order (the order of Python's str comparison). *)
(* "BQ" stands for the backquote character.                                *)
(***************************************************************************)
CodePoints ==
  <<"\t", "\n", " ", "!", "\"", "#", "$", "%", "&", "'", "(", ")", "*", "+",
    ",", "-", ".", "/", "0", "1", "2", "3", "4", "5", "6", "7", "8", "9", ":",
    ";", "<", "=", ">", "?", "@", "A", "B", "C", "D", "E", "F", "G", "H", "I",
    "J", "K", "L", "M", "N", "O", "P", "Q", "R", "S", "T", "U", "V", "W", "X",
    "Y", "Z", "[", "]", "^", "_", "BQ", "a", "b", "c", "d", "e", "f", "g", "h",
    "i", "j", "k", "l", "m", "n", "o", "p", "q", "r", "s", "t", "u", "v", "w",
    "x", "y", "z", "{", "|", "}", "~">>

Chars == {CodePoints[i] : i \in 1..Len(CodePoints)}

ord == [c \in Chars |-> CHOOSE i \in 1..Len(CodePoints) : CodePoints[i] = c]

Whitespace == {" ", "\t", "\n"}
Digits == {"0", "1", "2", "3", "4", "5", "6", "7", "8", "9"}
UpperChars == {c \in Chars : ord[c] >= ord["A"] /\ ord[c] <= ord["Z"]}
LowerChars == {c \in Chars : ord[c] >= ord["a"] /\ ord[c] <= ord["z"]}
AlnumChars == UpperChars \cup LowerChars \cup Digits

\* F(x) with x evaluated once, before F uses it
With(x, F(_)) == CHOOSE r \in {F(v) : v \in {x}} : TRUE

Min(S) == CHOOSE x \in S : \A y \in S : x <= y
Max(S) == CHOOSE x \in S : \A y \in S : x >= y

\* s[a:b] for 1-based inclusive bounds; empty when a > b
Slice(s, a, b) == IF a > b THEN <<>> ELSE SubSeq(s, a, b)

\* s[n:]
DropFirst(s, n) == Slice(s, n + 1, Len(s))

startswith(s, p) == Len(p) <= Len(s) /\ SubSeq(s, 1, Len(p)) = p

endswith(s, p) == Len(p) <= Len(s) /\ SubSeq(s, Len(s) - Len(p) + 1, Len(s)) = p

\* the positions at which sub occurs in s
Occurrences(s, sub) ==
  {i \in 1..(Len(s) - Len(sub) + 1) : SubSeq(s, i, i + Len(sub) - 1) = sub}

\* sub in s
contains(s, sub) == Len(sub) = 0 \/ Occurrences(s, sub) # {}

\* c in s, for one character
has(s, c) == \E i \in 1..Len(s) : s[i] = c

lstrip(s) ==
  LET keep == {i \in 1..Len(s) : s[i] \notin Whitespace}
  IN IF keep = {} THEN <<>> ELSE SubSeq(s, Min(keep), Len(s))

strip(s) ==
  LET keep == {i \in 1..Len(s) : s[i] \notin Whitespace}
  IN IF keep = {} THEN <<>> ELSE SubSeq(s, Min(keep), Max(keep))

\* the elements of a set of numbers in ascending order
Ascending(S) ==
  [k \in 1..Cardinality(S) |-> CHOOSE p \in S : Cardinality({q \in S : q < p}) = k - 1]

\* s.split(c) for a one-character separator
split(s, c) ==
  LET at == Ascending({i \in 1..Len(s) : s[i] = c})
      n == Len(at)
  IN [k \in 1..(n + 1) |->
        Slice(s, IF k = 1 THEN 1 ELSE at[k - 1] + 1,
                 IF k = n + 1 THEN Len(s) ELSE at[k] - 1)]

\* s.split(c, 1)
split1(s, c) ==
  LET at == {i \in 1..Len(s) : s[i] = c}
  IN IF at = {} THEN <<s>>
     ELSE <<Slice(s, 1, Min(at) - 1), Slice(s, Min(at) + 1, Len(s))>>

isdigit(s) == Len(s) > 0 /\ \A i \in 1..Len(s) : s[i] \in Digits

isalnum(s) == Len(s) > 0 /\ \A i \in 1..Len(s) : s[i] \in AlnumChars

\* s.replace(c, "") for one character
remove(s, c) == SelectSeq(s, LAMBDA x : x # c)

lower(s) ==
  [i \in 1..Len(s) |->
     IF s[i] \in UpperChars THEN CodePoints[ord[s[i]] - ord["A"] + ord["a"]] ELSE s[i]]

RECURSIVE int(_)
int(s) == IF Len(s) = 0 THEN 0
          ELSE 10 * int(SubSeq(s, 1, Len(s) - 1)) + (ord[s[Len(s)]] - ord["0"])

\* str(n) for a natural number
RECURSIVE str(_)
str(n) == IF n < 10 THEN <<CodePoints[ord["0"] + n]>>
          ELSE str(n \div 10) \o <<CodePoints[ord["0"] + (n % 10)]>>

RECURSIVE Concat(_)
Concat(ss) == IF Len(ss) = 0 THEN <<>> ELSE Head(ss) \o Concat(Tail(ss))

\* sep.join(ss)
RECURSIVE join(_, _)
join(sep, ss) ==
  IF Len(ss) = 0 THEN <<>>
  ELSE IF Len(ss) = 1 THEN ss[1]
  ELSE ss[1] \o sep \o join(sep, Tail(ss))

\* a < b for str
StrLess(a, b) ==
  LET n == IF Len(a) < Len(b) THEN Len(a) ELSE Len(b)
      d == {i \in 1..n : a[i] # b[i]}
  IN IF d = {} THEN Len(a) < Len(b) ELSE ord[a[Min(d)]] < ord[b[Min(d)]]

\* sorted() that leaves the list as it is
sorted_Unsorted(xs) == xs

\* sorted(xs) for a list of str (a stable sort)
sorted(xs) ==
  LET rank(i) == Cardinality({j \in 1..Len(xs) : StrLess(xs[j], xs[i])})
                 + Cardinality({j \in 1..(i - 1) : xs[j] = xs[i]}) + 1
  IN [k \in 1..Len(xs) |-> xs[CHOOSE i \in 1..Len(xs) : rank(i) = k]]

\* the elements of a sequence
Range(xs) == {xs[i] : i \in 1..Len(xs)}

\* every order in which a set may be iterated
Orders(S) ==
  {o \in [1..Cardinality(S) -> S] : \A x \in S : \E i \in 1..Cardinality(S) : o[i] = x}

(***************************************************************************)
(* Python values.  A dict is a function from its keys (str) to values; a   *)
(* list is a sequence.  None and "" are told apart only where the code     *)
(* does so.                                                                *)
(***************************************************************************)
PyNone == [t |-> "none", v |-> <<>>]
PyStr(s) == [t |-> "str", v |-> s]
PyInt(n) == [t |-> "int", v |-> n]
PyBool(b) == [t |-> "bool", v |-> b]
PyList(xs) == [t |-> "list", v |-> xs]
PyDict(d) == [t |-> "dict", v |-> d]

EmptyDict == [k \in {} |-> PyNone]

\* d[k] = x
DictSet(d, k, x) == [y \in (DOMAIN d) \cup {k} |-> IF y = k THEN x ELSE d[y]]

\* d.get(k), and d.get(k, default)
DictGetOr(d, k, default) == IF k \in DOMAIN d THEN d[k] ELSE default
DictGet(d, k) == DictGetOr(d, k, PyNone)

\* isinstance(x, dict)
IsDict(x) == x.t = "dict"

\* a == b: a str never equals an int; True == 1 and False == 0
PyEq(a, b) ==
  LET num(x) == IF x.t = "bool" THEN (IF x.v THEN 1 ELSE 0) ELSE x.v
  IN IF a.t \in {"int", "bool"} /\ b.t \in {"int", "bool"} THEN num(a) = num(b)
     ELSE a.t = b.t /\ a.v = b.v

\* bool(x) for the values the code tests for truth
Truthy(x) ==
  CASE x.t = "none" -> FALSE
    [] x.t = "str" -> Len(x.v) > 0
    [] x.t = "list" -> Len(x.v) > 0
    [] x.t = "dict" -> DOMAIN x.v # {}
    [] x.t = "int" -> x.v # 0
    [] x.t = "bool" -> x.v

(***************************************************************************)
(* The filesystem: a function from the paths that exist to their entries.  *)
(* Reading anything but a readable regular file raises OSError.            *)
(***************************************************************************)
File(content) == [kind |-> "file", content |-> content]
Dir == [kind |-> "dir", content |-> <<>>]
Unreadable == [kind |-> "unreadable", content |-> <<>>]

\* os.path.join(a, b)
os_path_join(a, b) ==
  IF startswith(b, <<"/">>) THEN b
  ELSE IF Len(a) = 0 \/ endswith(a, <<"/">>) THEN a \o b
  ELSE a \o <<"/">> \o b

\* os.path.basename(p)
os_path_basename(p) ==
  LET at == {i \in 1..Len(p) : p[i] = "/"}
  IN IF at = {} THEN p ELSE DropFirst(p, Max(at))

\* os.path.exists(p)
os_path_exists(files, p) == p \in DOMAIN files

\* open(p).read() succeeds
CanRead(files, p) == p \in DOMAIN files /\ files[p].kind = "file"

(***************************************************************************)
(* parse_frontmatter(content): (frontmatter, body), frontmatter None when  *)
(* no block is found.  raised is set where list.append would be called on  *)
(* a str (AttributeError).                                                 *)
(***************************************************************************)
NoFrontmatter(content) == [raised |-> FALSE, frontmatter |-> PyNone, body |-> content]

\* the index of the closing delimiter line, 0 when there is none
ClosingIndex(lines) ==
  LET at == {i \in 2..Len(lines) : strip(lines[i]) = <<"-", "-", "-">>}
  IN IF at = {} THEN 0 ELSE Min(at)

Indent(line) == Len(line) - Len(lstrip(line))

\* the look-ahead of a list item: the next line continues a multi-line dict
IsMultilineDict(lines, i, end_idx) ==
  /\ i + 1 < end_idx
  /\ LET next_stripped == strip(lines[i + 1])
     IN /\ Len(next_stripped) > 0
        /\ ~startswith(next_stripped, <<"-">>)
        /\ Indent(lines[i + 1]) > Indent(lines[i])
        /\ has(next_stripped, ":")

\* "- key: value", the key a dict-like key, not a Bazel label or an ISO standard
IsDictItem(rest) ==
  /\ has(rest, ":")
  /\ ~startswith(rest, <<"/", "/">>)
  /\ ~startswith(rest, <<"I", "S", "O", " ">>)
  /\ isalnum(remove(remove(strip(split1(rest, ":")[1]), "_"), "-"))

\* frontmatter[current_key][current_list] can take an item
CanAppend(st) ==
  /\ Len(st.current_key) > 0
  /\ Len(st.current_list) > 0
  /\ IsDict(st.frontmatter[st.current_key])

\* frontmatter[current_key][current_list].append(item)
AppendItem(st, item) ==
  LET d == st.frontmatter[st.current_key].v
      old == IF st.current_list \in DOMAIN d THEN d[st.current_list] ELSE PyList(<<>>)
  IN IF old.t # "list" THEN [st EXCEPT !.raised = TRUE]
     ELSE [st EXCEPT !.frontmatter =
             DictSet(st.frontmatter, st.current_key,
                     PyDict(DictSet(d, st.current_list, PyList(Append(old.v, item)))))]

\* current_dict_item[key] = value, the item being the last of the current list
SetInDictItem(st, key, value) ==
  IF st.current_dict_item # "attached" THEN st
  ELSE LET d == st.frontmatter[st.current_key].v
           items == d[st.current_list].v
           n == Len(items)
           item == PyDict(DictSet(items[n].v, key, PyStr(value)))
       IN [st EXCEPT !.frontmatter =
             DictSet(st.frontmatter, st.current_key,
                     PyDict(DictSet(d, st.current_list,
                                    PyList([items EXCEPT ![n] = item]))))]

\* a line starting with "-"
ListItemLine(st, lines, i, end_idx) ==
  LET stripped == strip(lines[i])
      rest == strip(DropFirst(stripped, 1))
      parts == split1(rest, ":")
      dict_key == strip(parts[1])
      dict_value == IF Len(parts) > 1 THEN strip(parts[2]) ELSE <<>>
      item == PyDict(DictSet(EmptyDict, dict_key, PyStr(dict_value)))
  IN IF IsDictItem(rest)
     THEN IF IsMultilineDict(lines, i, end_idx)
          THEN IF CanAppend(st)
               THEN [AppendItem(st, item) EXCEPT !.current_dict_item = "attached"]
               ELSE [st EXCEPT !.current_dict_item = "detached"]
          ELSE [(IF CanAppend(st) THEN AppendItem(st, item) ELSE st)
                  EXCEPT !.current_dict_item = "none"]
     ELSE IF CanAppend(st)
          THEN [AppendItem(st, PyStr(rest)) EXCEPT !.current_dict_item = "none"]
          ELSE st

\* a line holding ":" that is no list item
KeyValueLine(st, line) ==
  LET stripped == strip(line)
      indent == Indent(line)
      parts == split1(stripped, ":")
      key == strip(parts[1])
      value == IF Len(parts) > 1 THEN strip(parts[2]) ELSE <<>>
      is_dict == IsDict(st.frontmatter[st.current_key])
  IN IF indent = 0 \/ indent = st.base_indent
     THEN [st EXCEPT !.current_key = key,
                     !.frontmatter = DictSet(st.frontmatter, key,
                                       IF Len(value) > 0 THEN PyStr(value)
                                       ELSE PyDict(EmptyDict)),
                     !.current_list = IF Len(value) > 0 THEN @ ELSE <<>>,
                     !.base_indent = indent,
                     !.current_dict_item = "none"]
     ELSE IF st.current_dict_item # "none" /\ indent > st.base_indent + 2
     THEN SetInDictItem(st, key, value)
     ELSE IF Len(st.current_key) > 0 /\ indent > st.base_indent
     THEN IF ~is_dict THEN [st EXCEPT !.current_dict_item = "none"]
          ELSE IF Len(value) > 0
          THEN [st EXCEPT !.current_dict_item = "none",
                          !.frontmatter = DictSet(st.frontmatter, st.current_key,
                             PyDict(DictSet(st.frontmatter[st.current_key].v, key,
                                            PyStr(value))))]
          ELSE [st EXCEPT !.current_dict_item = "none",
                          !.frontmatter = DictSet(st.frontmatter, st.current_key,
                             PyDict(DictSet(st.frontmatter[st.current_key].v, key,
                                            PyList(<<>>)))),
                          !.current_list = key]
     ELSE st

\* one iteration of the loop over the lines of the block
ParseLine(st, lines, i, end_idx) ==
  LET stripped == strip(lines[i])
  IN IF Len(stripped) = 0 \/ startswith(stripped, <<"#">>) THEN st
     ELSE IF startswith(stripped, <<"-">>) THEN ListItemLine(st, lines, i, end_idx)
     ELSE IF has(stripped, ":") THEN KeyValueLine(st, lines[i])
     ELSE st

RECURSIVE ParseLines(_, _, _, _)
ParseLines(st, lines, i, end_idx) ==
  IF i >= end_idx \/ st.raised THEN st
  ELSE With(ParseLine(st, lines, i, end_idx),
            LAMBDA next : ParseLines(next, lines, i + 1, end_idx))

ParserStart ==
  [frontmatter |-> EmptyDict, current_key |-> <<>>, current_list |-> <<>>,
   current_dict_item |-> "none", base_indent |-> 0, raised |-> FALSE]

\* the block found: the lines before end_idx are parsed, those after it are the body
ParseBlock(lines, end_idx) ==
  With(ParseLines(ParserStart, lines, 2, end_idx),
       LAMBDA st : [raised |-> st.raised,
                    frontmatter |-> PyDict(st.frontmatter),
                    body |-> join(<<"\n">>, SubSeq(lines, end_idx + 1, Len(lines)))])

parse_frontmatter(content) ==
  IF ~startswith(content, <<"-", "-", "-">>) THEN NoFrontmatter(content)
  ELSE With(split(content, "\n"),
            LAMBDA lines :
              With(ClosingIndex(lines),
                   LAMBDA end_idx :
                     IF Len(lines) < 3 \/ end_idx = 0 THEN NoFrontmatter(content)
                     ELSE ParseBlock(lines, end_idx)))

(***************************************************************************)
(* parse_inline_yaml_for_requirement(content, req_id): the dict of the     *)
(* fenced yaml block under the heading "## <req_id>", or None.             *)
(***************************************************************************)
\* one iteration of the scan for the block's lines
InlineScanLine(sc, line, req_id) ==
  LET heading == <<"#", "#", " ">> \o req_id
  IN IF startswith(line, heading) THEN [sc EXCEPT !.in_req_section = TRUE]
     ELSE IF ~sc.in_req_section THEN sc
     ELSE IF startswith(line, <<"#", "#", " ">>) THEN [sc EXCEPT !.stop = TRUE]
     ELSE IF strip(line) = <<"BQ", "BQ", "BQ", "y", "a", "m", "l">> THEN [sc EXCEPT !.in_yaml_block = TRUE]
     ELSE IF ~sc.in_yaml_block THEN sc
     ELSE IF strip(line) = <<"BQ", "BQ", "BQ">> THEN [sc EXCEPT !.stop = TRUE]
     ELSE [sc EXCEPT !.yaml_lines = Append(@, line)]

RECURSIVE InlineScan(_, _, _, _)
InlineScan(sc, lines, i, req_id) ==
  IF i > Len(lines) \/ sc.stop THEN sc
  ELSE With(InlineScanLine(sc, lines[i], req_id),
            LAMBDA next : InlineScan(next, lines, i + 1, req_id))

\* the value of a "key: value" line of the block
InlineValue(value) ==
  IF isdigit(value) THEN PyInt(int(value))
  ELSE IF lower(value) = <<"t", "r", "u", "e">> THEN PyBool(TRUE)
  ELSE IF lower(value) = <<"f", "a", "l", "s", "e">> THEN PyBool(FALSE)
  ELSE PyStr(value)

RECURSIVE InlinePairs(_, _, _)
InlinePairs(d, yaml_lines, i) ==
  IF i > Len(yaml_lines) THEN d
  ELSE LET stripped == strip(yaml_lines[i])
           parts == split1(stripped, ":")
       IN IF Len(stripped) = 0 \/ startswith(stripped, <<"#">>) \/ ~has(stripped, ":")
          THEN InlinePairs(d, yaml_lines, i + 1)
          ELSE With(DictSet(d, strip(parts[1]), InlineValue(strip(parts[2]))),
                    LAMBDA next : InlinePairs(next, yaml_lines, i + 1))

\* the lines of the block found under the heading
InlineYamlLines(content, req_id) ==
  With(split(content, "\n"),
       LAMBDA lines :
         InlineScan([in_req_section |-> FALSE, in_yaml_block |-> FALSE,
                     yaml_lines |-> <<>>, stop |-> FALSE], lines, 1, req_id).yaml_lines)

parse_inline_yaml_for_requirement(content, req_id) ==
  With(InlineYamlLines(content, req_id),
       LAMBDA yaml_lines :
         IF Len(yaml_lines) = 0 THEN PyNone
         ELSE PyDict(InlinePairs(DictSet(EmptyDict, <<"i", "d">>, PyStr(req_id)), yaml_lines, 1)))

(***************************************************************************)
(* extract_markdown_references(body): the three regular expressions,       *)
(* matched as re.finditer matches them (leftmost, non-overlapping).        *)
(***************************************************************************)
IdentStart == UpperChars \cup LowerChars \cup {"_"}
IdentChars == IdentStart \cup Digits
ReqIdChars == UpperChars \cup Digits \cup {"_", "-"}

\* the last index of the longest run of characters of cls starting at i (i - 1 if none)
RunEnd(s, i, cls) ==
  LET stop == {j \in i..Len(s) : s[j] \notin cls}
  IN IF stop = {} THEN Len(s) ELSE Min(stop) - 1

\* "](" at q + 1, then the target: one or more characters other than ")", then ")".
\* The index of that ")", 0 when the link does not close.
TargetEnd(s, q) ==
  IF q + 2 > Len(s) \/ s[q + 1] # "]" \/ s[q + 2] # "(" THEN 0
  ELSE LET close == {j \in (q + 3)..Len(s) : s[j] = ")"}
       IN IF close = {} \/ Min(close) = q + 3 THEN 0 ELSE Min(close)

\* \[@([a-zA-Z_][a-zA-Z0-9_]*)\]\(([^)]+)\) at position p
MatchParam(s, p) ==
  IF p + 2 > Len(s) \/ s[p] # "[" \/ s[p + 1] # "@" \/ s[p + 2] \notin IdentStart
  THEN [end |-> 0]
  ELSE LET q == RunEnd(s, p + 3, IdentChars)
           r == TargetEnd(s, q)
       IN IF r = 0 THEN [end |-> 0]
          ELSE [end |-> r, text |-> SubSeq(s, p + 2, q), target |-> SubSeq(s, q + 3, r - 1)]

\* \[([A-Z][A-Z0-9_-]+)\]\(([^)]+\.md[^)]*)\) at position p
MatchReq(s, p) ==
  IF p + 2 > Len(s) \/ s[p] # "[" \/ s[p + 1] \notin UpperChars \/ s[p + 2] \notin ReqIdChars
  THEN [end |-> 0]
  ELSE LET q == RunEnd(s, p + 3, ReqIdChars)
           r == TargetEnd(s, q)
           target == SubSeq(s, q + 3, r - 1)
       IN IF r = 0 \/ Occurrences(target, <<".", "m", "d">>) \ {1} = {} THEN [end |-> 0]
          ELSE [end |-> r, text |-> SubSeq(s, p + 1, q), target |-> target]

\* \[([a-zA-Z_][a-zA-Z0-9_]*)\]\((//[^)]+:[^)]+)\) at position p
MatchTest(s, p) ==
  IF p + 1 > Len(s) \/ s[p] # "[" \/ s[p + 1] \notin IdentStart THEN [end |-> 0]
  ELSE LET q == RunEnd(s, p + 2, IdentChars)
           r == TargetEnd(s, q)
           target == SubSeq(s, q + 3, r - 1)
       IN IF r = 0 \/ ~startswith(target, <<"/", "/">>)
             \/ {i \in 4..(Len(target) - 1) : target[i] = ":"} = {}
          THEN [end |-> 0]
          ELSE [end |-> r, text |-> SubSeq(s, p + 1, q), target |-> target]

\* the match of one pattern at position p, end 0 when it does not match there
Match(s, p, kind) ==
  With(p, LAMBDA at :
    [at |-> at] @@ (CASE kind = "param" -> MatchParam(s, at)
                      [] kind = "req" -> MatchReq(s, at)
                      [] kind = "test" -> MatchTest(s, at)))

\* re.finditer: the matches of one pattern from position p on, in order
RECURSIVE FindAll(_, _, _)
FindAll(s, p, kind) ==
  With({i \in p..Len(s) : s[i] = "["},
       LAMBDA open :
         IF open = {} THEN <<>>
         ELSE With(Match(s, Min(open), kind),
                   LAMBDA m : IF m.end = 0 THEN FindAll(s, m.at + 1, kind)
                              ELSE <<m>> \o FindAll(s, m.end + 1, kind)))

\* the version=N of the query string (the last one wins), None when there is none
RECURSIVE QueryVersion(_, _, _)
QueryVersion(params, i, version) ==
  IF i > Len(params) THEN version
  ELSE LET kv == split1(params[i], "=")
       IN QueryVersion(params, i + 1,
            IF has(params[i], "=") /\ kv[1] = <<"v", "e", "r", "s", "i", "o", "n">> /\ isdigit(kv[2])
            THEN PyInt(int(kv[2])) ELSE version)

\* (req_id, clean_path, version) of one requirement link
ReqRef(req_id, full_url) ==
  IF ~has(full_url, "?") THEN [id |-> req_id, path |-> full_url, version |-> PyNone]
  ELSE LET path_part == split1(full_url, "?")[1]
           query_part == split1(full_url, "?")[2]
           query_str == split(query_part, "#")[1]
       IN [id |-> req_id,
           path |-> IF has(query_part, "#")
                    THEN path_part \o <<"#">> \o split(query_part, "#")[2]
                    ELSE path_part,
           version |-> QueryVersion(split(query_str, "&"), 1, PyNone)]

\* the references of one kind, in the order matched
ParamRefs(matches) == [i \in 1..Len(matches) |-> [name |-> matches[i].text, path |-> matches[i].target]]
ReqRefs(matches) == [i \in 1..Len(matches) |-> ReqRef(matches[i].text, matches[i].target)]
TestRefs(matches) == [i \in 1..Len(matches) |-> [name |-> matches[i].text, label |-> matches[i].target]]

extract_markdown_references(body) ==
  [param_refs |-> With(FindAll(body, 1, "param"), ParamRefs),
   req_refs |-> With(FindAll(body, 1, "req"), ReqRefs),
   test_refs |-> With(FindAll(body, 1, "test"), TestRefs)]

(***************************************************************************)
(* The reference resolvers.  Each returns (valid, error); the error of a   *)
(* failed resolution is the message's kind and the values formatted into   *)
(* it, each a list of str.  The requirement resolver also prints warnings. *)
(***************************************************************************)
Ok == [valid |-> TRUE, error |-> [type |-> "none", args |-> <<>>], warnings |-> <<>>]
Fail(type, args) == [valid |-> FALSE, error |-> [type |-> type, args |-> args], warnings |-> <<>>]

\* a path with one leading "/" stripped (repository-relative)
StripLeadingSlash(p) == IF startswith(p, <<"/">>) THEN DropFirst(p, 1) ELSE p

\* only the double-quoted form is looked for
QuotedIn_DoubleQuotesOnly(content, name) == contains(content, <<"\"">> \o name \o <<"\"">>)

\* '"name"' or "'name'" in content
QuotedIn(content, name) ==
  \/ contains(content, <<"\"">> \o name \o <<"\"">>)
  \/ contains(content, <<"'">> \o name \o <<"'">>)

\* the file is looked for before the anchor is compared with the link text
validate_parameter_reference_ExistenceFirst(param_name, param_path, workspace_root, files) ==
  LET parts == split1(param_path, "#")
      anchor == IF has(param_path, "#") THEN parts[2] ELSE param_name
      file_path == StripLeadingSlash(parts[1])
      abs_path == os_path_join(workspace_root, file_path)
  IN IF ~os_path_exists(files, abs_path)
     THEN Fail("param_file_missing", <<<<file_path>>>>)
     ELSE IF param_name # anchor
     THEN Fail("param_text_anchor_mismatch", <<<<param_name>>, <<anchor>>, <<param_path>>>>)
     ELSE IF ~CanRead(files, abs_path)
     THEN Fail("param_read_error", <<<<file_path>>>>)
     ELSE IF QuotedIn(files[abs_path].content, anchor) THEN Ok
     ELSE Fail("param_not_found", <<<<anchor>>, <<file_path>>>>)

validate_parameter_reference(param_name, param_path, workspace_root, files) ==
  LET parts == split1(param_path, "#")
      anchor == IF has(param_path, "#") THEN parts[2] ELSE param_name
      file_path == StripLeadingSlash(parts[1])
      abs_path == os_path_join(workspace_root, file_path)
  IN IF param_name # anchor
     THEN Fail("param_text_anchor_mismatch", <<<<param_name>>, <<anchor>>, <<param_path>>>>)
     ELSE IF ~os_path_exists(files, abs_path)
     THEN Fail("param_file_missing", <<<<file_path>>>>)
     ELSE IF ~CanRead(files, abs_path)
     THEN Fail("param_read_error", <<<<file_path>>>>)
     ELSE IF QuotedIn(files[abs_path].content, anchor) THEN Ok
     ELSE Fail("param_not_found", <<<<anchor>>, <<file_path>>>>)

\* the frontmatter of the target: parse_frontmatter, else the inline yaml block
TargetFrontmatter(content, req_id) ==
  With(parse_frontmatter(content).frontmatter,
       LAMBDA fm :
         IF ~Truthy(fm) \/ ~PyEq(DictGet(fm.v, <<"i", "d">>), PyStr(req_id))
         THEN parse_inline_yaml_for_requirement(content, req_id)
         ELSE fm)

\* the warnings printed when the reference carries a version
StaleWarnings(frontmatter, req_id, ref_version, path, source_file) ==
  LET actual_version == DictGet(frontmatter.v, <<"v", "e", "r", "s", "i", "o", "n">>)
  IN IF ref_version.t = "none" THEN <<>>
     ELSE IF actual_version.t = "none"
     THEN <<[type |-> "warning_no_version", source |-> source_file, id |-> req_id,
             ref_version |-> ref_version, path |-> path]>>
     ELSE IF ~PyEq(actual_version, ref_version)
     THEN <<[type |-> "warning_version", source |-> source_file, id |-> req_id,
             ref_version |-> ref_version, path |-> path]>>
     ELSE <<>>

\* the file has been read: its id is checked, then its version
CheckTarget(content, req_id, req_path, path_without_fragment, ref_version, source_file) ==
  IF parse_frontmatter(content).raised THEN Fail("req_read_error", <<<<req_path>>>>)
  ELSE With(TargetFrontmatter(content, req_id),
            LAMBDA frontmatter :
              IF ~Truthy(frontmatter) \/ ~PyEq(DictGet(frontmatter.v, <<"i", "d">>), PyStr(req_id))
              THEN Fail("req_id_mismatch", <<<<req_path>>, <<req_id>>>>)
              ELSE [Ok EXCEPT !.warnings =
                      StaleWarnings(frontmatter, req_id, ref_version,
                                    path_without_fragment, source_file)])

validate_requirement_reference(req_id, req_path0, workspace_root, ref_version, source_file, files) ==
  LET req_path == StripLeadingSlash(req_path0)
      path_without_fragment == split(req_path, "#")[1]
      filename == os_path_basename(path_without_fragment)
      abs_path == os_path_join(workspace_root, path_without_fragment)
  IN IF ~(endswith(filename, <<".", "m", "d">>) \/ endswith(filename, <<".", "s", "y", "s", "r", "e", "q", ".", "m", "d">>))
     THEN Fail("req_extension", <<<<filename>>>>)
     ELSE IF ~os_path_exists(files, abs_path)
     THEN Fail("req_file_missing", <<<<req_path>>>>)
     ELSE IF ~CanRead(files, abs_path)
     THEN Fail("req_read_error", <<<<req_path>>>>)
     ELSE With(files[abs_path].content,
               LAMBDA content : CheckTarget(content, req_id, req_path, path_without_fragment,
                                            ref_version, source_file))

\* BUILD is looked for before BUILD.bazel
BuildFile_BuildFirst(workspace_root, package_path, files) ==
  LET bazel == os_path_join(os_path_join(workspace_root, package_path), <<"B", "U", "I", "L", "D", ".", "b", "a", "z", "e", "l">>)
      build == os_path_join(os_path_join(workspace_root, package_path), <<"B", "U", "I", "L", "D">>)
  IN IF os_path_exists(files, build) THEN build
     ELSE IF os_path_exists(files, bazel) THEN bazel
     ELSE <<>>

\* the first of BUILD.bazel and BUILD that exists in the package, <<>> when neither does
BuildFile(workspace_root, package_path, files) ==
  LET bazel == os_path_join(os_path_join(workspace_root, package_path), <<"B", "U", "I", "L", "D", ".", "b", "a", "z", "e", "l">>)
      build == os_path_join(os_path_join(workspace_root, package_path), <<"B", "U", "I", "L", "D">>)
  IN IF os_path_exists(files, bazel) THEN bazel
     ELSE IF os_path_exists(files, build) THEN build
     ELSE <<>>

\* 'name = "target"' or "name = 'target'" in build_content
NameAssignedIn(build_content, target_name) ==
  \/ contains(build_content, <<"n", "a", "m", "e", " ", "=", " ", "\"">> \o target_name \o <<"\"">>)
  \/ contains(build_content, <<"n", "a", "m", "e", " ", "=", " ", "'">> \o target_name \o <<"'">>)

validate_test_reference(test_name, test_label, workspace_root, files) ==
  LET label_parts == split(DropFirst(test_label, 2), ":")
      package_path == label_parts[1]
      target_name == label_parts[2]
      build_file == BuildFile(workspace_root, package_path, files)
  IN IF ~startswith(test_label, <<"/", "/">>)
     THEN Fail("test_label_format", <<<<test_label>>>>)
     ELSE IF Len(label_parts) # 2
     THEN Fail("test_label_missing_colon", <<<<test_label>>>>)
     ELSE IF test_name # target_name
     THEN Fail("test_text_target_mismatch", <<<<test_name>>, <<target_name>>, <<test_label>>>>)
     ELSE IF Len(build_file) = 0
     THEN Fail("test_no_build_file", <<<<package_path>>>>)
     ELSE IF ~CanRead(files, build_file)
     THEN Fail("test_exception", <<<<test_label>>>>)
     ELSE IF NameAssignedIn(files[build_file].content, target_name) THEN Ok
     ELSE Fail("test_target_not_found", <<<<target_name>>, <<build_file>>>>)

(***************************************************************************)
(* validate_requirement_file(file_path, workspace_root): the list of       *)
(* errors of one document.  The consistency checks iterate over Python     *)
(* sets of str, whose iteration order depends on the process's hash seed:  *)
(* the function is modelled by the set of lists it can return, one for     *)
(* every iteration order of each set.                                      *)
(***************************************************************************)
Error(file_path, type, args) == [file |-> file_path, type |-> type, args |-> args]

\* the items "for item in ref_list" yields: a list's items, a str's characters
Items(ref_list) ==
  IF ref_list.t = "list" THEN ref_list.v
  ELSE IF ref_list.t = "str" THEN [i \in 1..Len(ref_list.v) |-> PyStr(<<ref_list.v[i]>>)]
  ELSE <<>>

\* fm_refs.get(ref_type, [])
RefList(fm_refs, ref_type) == DictGetOr(fm_refs, ref_type, PyList(<<>>))

\* the values of the items that are sorted: a dict contributes its path, if it has one
RECURSIVE SortableItems(_)
SortableItems(items) ==
  IF Len(items) = 0 THEN <<>>
  ELSE LET item == Head(items)
       IN (IF IsDict(item)
           THEN (IF <<"p", "a", "t", "h">> \in DOMAIN item.v THEN <<item.v[<<"p", "a", "t", "h">>].v>> ELSE <<>>)
           ELSE <<item.v>>) \o SortableItems(Tail(items))

\* the ordering check of one of parameters, tests, standards
SortErrors(file_path, fm_refs, ref_type) ==
  With(SortableItems(Items(RefList(fm_refs, ref_type))),
       LAMBDA sortable_items :
         With(sorted(sortable_items),
              LAMBDA sorted_items :
                IF ~Truthy(RefList(fm_refs, ref_type)) \/ sortable_items = sorted_items THEN <<>>
                ELSE <<Error(file_path, "not_sorted",
                             <<<<ref_type>>, sortable_items, sorted_items>>)>>))

\* req_ref.get('path', '')
PathOf(req_ref) == DictGetOr(req_ref.v, <<"p", "a", "t", "h">>, PyStr(<<>>)).v

\* the schema errors of one requirement reference, number the str of its position
RequirementEntryErrors(file_path, req_ref, number) ==
  IF IsDict(req_ref)
  THEN (IF <<"p", "a", "t", "h">> \notin DOMAIN req_ref.v
        THEN <<Error(file_path, "requirement_missing_path", <<<<number>>>>)>> ELSE <<>>)
       \o (IF <<"v", "e", "r", "s", "i", "o", "n">> \notin DOMAIN req_ref.v
           THEN <<Error(file_path, "requirement_missing_version",
                         <<<<number>>, <<DictGetOr(req_ref.v, <<"p", "a", "t", "h">>, PyStr(<<"u", "n", "k", "n", "o", "w", "n">>)).v>>>>)>>
           ELSE <<>>)
  ELSE <<Error(file_path, "requirement_not_dict", <<<<req_ref.v>>>>)>>

\* the value a requirement reference is sorted and matched by
SortableReq(req_ref) == IF IsDict(req_ref) THEN PathOf(req_ref) ELSE req_ref.v

\* the check of references.requirements: the schema of each entry, then the order
RequirementErrors(file_path, fm_refs) ==
  LET req_list == RefList(fm_refs, <<"r", "e", "q", "u", "i", "r", "e", "m", "e", "n", "t", "s">>)
      items == Items(req_list)
  IN IF ~Truthy(req_list) THEN <<>>
     ELSE Concat([i \in 1..Len(items) |-> RequirementEntryErrors(file_path, items[i], str(i))])
          \o With([i \in 1..Len(items) |-> SortableReq(items[i])],
                  LAMBDA sortable_reqs :
                    With(sorted(sortable_reqs),
                         LAMBDA sorted_reqs :
                           IF sortable_reqs = sorted_reqs THEN <<>>
                           ELSE <<Error(file_path, "not_sorted",
                                        <<<<<<"r", "e", "q", "u", "i", "r", "e", "m", "e", "n", "t", "s">>>>, sortable_reqs, sorted_reqs>>)>>))

\* fm_params and fm_tests: the declared entries that are not dicts
DeclaredScalars(fm_refs, ref_type) ==
  LET items == Items(RefList(fm_refs, ref_type))
  IN {items[i].v : i \in {j \in 1..Len(items) : ~IsDict(items[j])}}

\* fm_reqs: the path of each dict entry ('' when it has none), other entries as they are
DeclaredReqs(fm_refs) ==
  LET items == Items(RefList(fm_refs, <<"r", "e", "q", "u", "i", "r", "e", "m", "e", "n", "t", "s">>))
  IN {SortableReq(items[i]) : i \in 1..Len(items)}

\* nothing is reported when the other set is empty
Mismatches_SkipsEmptyOther(file_path, order, other, type) ==
  LET bad == SelectSeq(order, LAMBDA x : other # {} /\ x \notin other)
  IN [i \in 1..Len(bad) |-> Error(file_path, type, <<<<bad[i]>>>>)]

\* one error for each value of the iteration order that is not in the other set
Mismatches(file_path, order, other, type) ==
  LET bad == SelectSeq(order, LAMBDA x : x \notin other)
  IN [i \in 1..Len(bad) |-> Error(file_path, type, <<<<bad[i]>>>>)]

\* a list without the later occurrences of its elements
Distinct(s) ==
  LET first == Ascending({i \in 1..Len(s) : \A j \in 1..(i - 1) : s[j] # s[i]})
  IN [k \in 1..Len(first) |-> s[first[k]]]

\* the resolution, were every distinct body reference resolved once
ResolveAll_OncePerReference(file_path, refs, workspace_root, files) ==
  [i \in 1..Len(Distinct(refs.param_refs)) |->
     validate_parameter_reference(Distinct(refs.param_refs)[i].name,
                                  Distinct(refs.param_refs)[i].path, workspace_root, files)]
  \o [i \in 1..Len(Distinct(refs.req_refs)) |->
     validate_requirement_reference(Distinct(refs.req_refs)[i].id, Distinct(refs.req_refs)[i].path,
                                    workspace_root, Distinct(refs.req_refs)[i].version,
                                    file_path, files)]
  \o [i \in 1..Len(Distinct(refs.test_refs)) |->
     validate_test_reference(Distinct(refs.test_refs)[i].name, Distinct(refs.test_refs)[i].label,
                             workspace_root, files)]

\* the resolution of every body reference, in the order extracted
ResolveAll(file_path, refs, workspace_root, files) ==
  [i \in 1..Len(refs.param_refs) |->
     validate_parameter_reference(refs.param_refs[i].name, refs.param_refs[i].path,
                                  workspace_root, files)]
  \o [i \in 1..Len(refs.req_refs) |->
     validate_requirement_reference(refs.req_refs[i].id, refs.req_refs[i].path,
                                    workspace_root, refs.req_refs[i].version, file_path, files)]
  \o [i \in 1..Len(refs.test_refs) |->
     validate_test_reference(refs.test_refs[i].name, refs.test_refs[i].label,
                             workspace_root, files)]

ResolutionErrors(file_path, results) ==
  LET failed == SelectSeq(results, LAMBDA r : ~r.valid)
  IN [i \in 1..Len(failed) |-> Error(file_path, failed[i].error.type, failed[i].error.args)]

ResolutionWarnings(results) == Concat([i \in 1..Len(results) |-> results[i].warnings])

Returned(errors, warnings) == [raised |-> FALSE, errors |-> errors, warnings |-> warnings]
Raised == [raised |-> TRUE, errors |-> <<>>, warnings |-> <<>>]

\* the frontmatter checks, were the declared standards matched against the body as well
FrontmatterErrors_StandardsMatched(file_path, fm_refs, refs) ==
  LET fm_params == DeclaredScalars(fm_refs, <<"p", "a", "r", "a", "m", "e", "t", "e", "r", "s">>)
      fm_reqs == DeclaredReqs(fm_refs)
      fm_tests == DeclaredScalars(fm_refs, <<"t", "e", "s", "t", "s">>)
      body_params == {refs.param_refs[i].path : i \in 1..Len(refs.param_refs)}
      body_reqs == {refs.req_refs[i].path : i \in 1..Len(refs.req_refs)}
      body_tests == {refs.test_refs[i].label : i \in 1..Len(refs.test_refs)}
  IN {checks
      \o Mismatches(file_path, o1, fm_params, "body_parameter_undeclared")
      \o Mismatches(file_path, o2, fm_reqs, "body_requirement_undeclared")
      \o Mismatches(file_path, o3, fm_tests, "body_test_undeclared")
      \o Mismatches(file_path, o4, body_params, "declared_parameter_unused")
      \o Mismatches(file_path, o5, body_reqs \cup {<<>>}, "declared_requirement_unused")  \* "if req_path and ..."
      \o Mismatches(file_path, o6, body_tests, "declared_test_unused")
      \o Mismatches(file_path, o7, {}, "declared_standard_unused") :
        checks \in {SortErrors(file_path, fm_refs, <<"p", "a", "r", "a", "m", "e", "t", "e", "r", "s">>)
                    \o SortErrors(file_path, fm_refs, <<"t", "e", "s", "t", "s">>)
                    \o SortErrors(file_path, fm_refs, <<"s", "t", "a", "n", "d", "a", "r", "d", "s">>)
                    \o RequirementErrors(file_path, fm_refs)},
        o1 \in Orders(body_params), o2 \in Orders(body_reqs), o3 \in Orders(body_tests),
        o4 \in Orders(fm_params), o5 \in Orders(fm_reqs), o6 \in Orders(fm_tests),
        o7 \in Orders(DeclaredScalars(fm_refs, <<"s", "t", "a", "n", "d", "a", "r", "d", "s">>))}

\* the frontmatter checks: ordering and schema, then declared against used
FrontmatterErrors(file_path, fm_refs, refs) ==
  LET fm_params == DeclaredScalars(fm_refs, <<"p", "a", "r", "a", "m", "e", "t", "e", "r", "s">>)
      fm_reqs == DeclaredReqs(fm_refs)
      fm_tests == DeclaredScalars(fm_refs, <<"t", "e", "s", "t", "s">>)
      body_params == {refs.param_refs[i].path : i \in 1..Len(refs.param_refs)}
      body_reqs == {refs.req_refs[i].path : i \in 1..Len(refs.req_refs)}
      body_tests == {refs.test_refs[i].label : i \in 1..Len(refs.test_refs)}
  IN {checks
      \o Mismatches(file_path, o1, fm_params, "body_parameter_undeclared")
      \o Mismatches(file_path, o2, fm_reqs, "body_requirement_undeclared")
      \o Mismatches(file_path, o3, fm_tests, "body_test_undeclared")
      \o Mismatches(file_path, o4, body_params, "declared_parameter_unused")
      \o Mismatches(file_path, o5, body_reqs \cup {<<>>}, "declared_requirement_unused")  \* "if req_path and ..."
      \o Mismatches(file_path, o6, body_tests, "declared_test_unused") :
        checks \in {SortErrors(file_path, fm_refs, <<"p", "a", "r", "a", "m", "e", "t", "e", "r", "s">>)
                    \o SortErrors(file_path, fm_refs, <<"t", "e", "s", "t", "s">>)
                    \o SortErrors(file_path, fm_refs, <<"s", "t", "a", "n", "d", "a", "r", "d", "s">>)
                    \o RequirementErrors(file_path, fm_refs)},
        o1 \in Orders(body_params), o2 \in Orders(body_reqs), o3 \in Orders(body_tests),
        o4 \in Orders(fm_params), o5 \in Orders(fm_reqs), o6 \in Orders(fm_tests)}

\* the references are resolved only when the frontmatter checks found nothing
CheckAndResolve_StopsAtFirstFailure(file_path, frontmatter, refs, workspace_root, files) ==
  IF Truthy(frontmatter) /\ ~IsDict(DictGetOr(frontmatter.v, <<"r", "e", "f", "e", "r", "e", "n", "c", "e", "s">>, PyDict(EmptyDict)))
  THEN {Raised}
  ELSE {IF Len(checks) > 0 THEN Returned(checks, <<>>)
        ELSE Returned(ResolutionErrors(file_path, results), ResolutionWarnings(results)) :
          results \in {ResolveAll(file_path, refs, workspace_root, files)},
          checks \in IF Truthy(frontmatter)
                     THEN With(DictGetOr(frontmatter.v, <<"r", "e", "f", "e", "r", "e", "n", "c", "e", "s">>, PyDict(EmptyDict)).v,
                               LAMBDA fm_refs : FrontmatterErrors(file_path, fm_refs, refs))
                     ELSE {<<>>}}

\* the lists the function can return once the document is parsed and its body scanned
CheckAndResolve(file_path, frontmatter, refs, workspace_root, files) ==
  IF Truthy(frontmatter) /\ ~IsDict(DictGetOr(frontmatter.v, <<"r", "e", "f", "e", "r", "e", "n", "c", "e", "s">>, PyDict(EmptyDict)))
  THEN {Raised}
  ELSE {Returned(checks \o ResolutionErrors(file_path, results), ResolutionWarnings(results)) :
          results \in {ResolveAll(file_path, refs, workspace_root, files)},
          checks \in IF Truthy(frontmatter)
                     THEN With(DictGetOr(frontmatter.v, <<"r", "e", "f", "e", "r", "e", "n", "c", "e", "s">>, PyDict(EmptyDict)).v,
                               LAMBDA fm_refs : FrontmatterErrors(file_path, fm_refs, refs))
                     ELSE {<<>>}}

\* the document has been read, and the references are extracted from the parsed body
\* whether or not there is frontmatter
ValidateContent_BodyOnly(file_path, content, workspace_root, files) ==
  With(parse_frontmatter(content),
       LAMBDA parsed :
         IF parsed.raised THEN {Raised}
         ELSE With(extract_markdown_references(parsed.body),
                   LAMBDA refs : CheckAndResolve(file_path, parsed.frontmatter, refs,
                                                 workspace_root, files)))

\* the document has been read
ValidateContent(file_path, content, workspace_root, files) ==
  With(parse_frontmatter(content),
       LAMBDA parsed :
         IF parsed.raised THEN {Raised}
         ELSE With(extract_markdown_references(IF Truthy(parsed.frontmatter)
                                               THEN parsed.body ELSE content),
                   LAMBDA refs : CheckAndResolve(file_path, parsed.frontmatter, refs,
                                                 workspace_root, files)))

validate_requirement_file(file_path, workspace_root, files) ==
  IF ~CanRead(files, file_path)
  THEN {Returned(<<Error(file_path, "read_error", <<>>)>>, <<>>)}
  ELSE With(files[file_path].content,
            LAMBDA content : ValidateContent(file_path, content, workspace_root, files))

(***************************************************************************)
(* The inputs of a run: a workspace of parameter files, requirement        *)
(* documents and build files, and the requirement documents named on the   *)
(* command line, each given by its declared references and the links of    *)
(* its body and written out as the text the program reads.                 *)
(***************************************************************************)
MaxFiles == 2
MaxDeclared == 2
MaxLinks == 2

workspace_root == <<"/", "w">>

Workspace ==
  (<<"/", "w", "/">> :> Dir)
  @@ (<<"/", "w", "/", "p", ".", "b", "z", "l">> :> File(<<"P", " ", "=", " ", "{", "\"", "a", "\"", ":", " ", "1", ",", " ", "'", "b", "'", ":", " ", "2", "}", "\n">>))
  @@ (<<"/", "w", "/", "p", "a", "r", "a", "m", "s", "/", "b", "r", "a", "k", "e", ".", "b", "z", "l">> :> File(<<"P", " ", "=", " ", "{", "\"", "b", "r", "a", "k", "e", "_", "d", "i", "s", "t", "a", "n", "c", "e", "\"", ":", " ", "1", "}", "\n">>))
  @@ (<<"/", "w", "/", "u", ".", "b", "z", "l">> :> Unreadable)
  @@ (<<"/", "w", "/", "r", "/", "R", "2", ".", "m", "d">> :> File(<<"-", "-", "-", "\n", "i", "d", ":", " ", "R", "2", "\n", "v", "e", "r", "s", "i", "o", "n", ":", " ", "2", "\n", "-", "-", "-", "\n", "t", "e", "x", "t", "\n">>))
  @@ (<<"/", "w", "/", "r", "/", "R", "3", ".", "m", "d">> :> File(<<"-", "-", "-", "\n", "i", "d", ":", " ", "R", "3", "\n", "-", "-", "-", "\n", "t", "e", "x", "t", "\n">>))
  @@ (<<"/", "w", "/", "r", "/", "m", ".", "m", "d">> :> File(<<"#", " ", "T", "\n", "#", "#", " ", "R", "4", "\n", "BQ", "BQ", "BQ", "y", "a", "m", "l", "\n", "v", "e", "r", "s", "i", "o", "n", ":", " ", "1", "\n", "BQ", "BQ", "BQ", "\n", "#", "#", " ", "R", "1", "0", "\n", "BQ", "BQ", "BQ", "y", "a", "m", "l", "\n", "v", "e", "r", "s", "i", "o", "n", ":", " ", "3", "\n", "BQ", "BQ", "BQ", "\n">>))
  @@ (<<"/", "w", "/", "r", "/", "n", ".", "t", "x", "t">> :> File(<<"-", "-", "-", "\n", "i", "d", ":", " ", "R", "5", "\n", "-", "-", "-", "\n">>))
  @@ (<<"/", "w", "/", "r", "/", "u", ".", "m", "d">> :> Unreadable)
  @@ (<<"/", "w", "/", "t", "/", "B", "U", "I", "L", "D", ".", "b", "a", "z", "e", "l">> :> File(<<"t", "(", "n", "a", "m", "e", " ", "=", " ", "\"", "t", "a", "\"", ")", "\n">>))
  @@ (<<"/", "w", "/", "t", "2", "/", "B", "U", "I", "L", "D">> :> File(<<"t", "(", "n", "a", "m", "e", " ", "=", " ", "'", "t", "b", "'", ")", "\n">>))
  @@ (<<"/", "w", "/", "t", "3", "/", "B", "U", "I", "L", "D", ".", "b", "a", "z", "e", "l">> :> File(<<"t", "(", "n", "a", "m", "e", " ", "=", " ", "\"", "z", "z", "\"", ")", "\n">>))
  @@ (<<"/", "w", "/", "t", "3", "/", "B", "U", "I", "L", "D">> :> File(<<"t", "(", "n", "a", "m", "e", " ", "=", " ", "\"", "t", "c", "\"", ")", "\n">>))
  @@ (<<"/", "w", "/", "t", "5", "/", "B", "U", "I", "L", "D">> :> Unreadable)

EmptyWorkspace == (<<"/", "w", "/">> :> Dir)

Workspaces == {Workspace, EmptyWorkspace}

DocPaths == {<<"/", "d", "/", "a", ".", "m", "d">>, <<"/", "d", "/", "b", ".", "m", "d">>}

\* a link of a body: its kind, its text, its target as written, and the value the
\* consistency check matches against the declared entries
ParamLink(text, target) == [kind |-> "param", text |-> text, target |-> target, key |-> target]
ReqLink(text, target, key) == [kind |-> "req", text |-> text, target |-> target, key |-> key]
TestLink(text, target) == [kind |-> "test", text |-> text, target |-> target, key |-> target]

LinkText(l) ==
  <<"s", "e", "e", " ", "[">> \o (IF l.kind = "param" THEN <<"@">> ELSE <<>>) \o l.text \o <<"]", "(">> \o l.target \o <<")", " ", "h", "e", "r", "e", "\n">>

ReqEntry(path, version) == [path |-> path, version |-> version]

\* a document: what it declares and what its body links to; raw is a text given as is
\* and missing a path that cannot be read
Document(params, reqs, tests, standards, links) ==
  [kind |-> "document", params |-> params, reqs |-> reqs, tests |-> tests,
   standards |-> standards, links |-> links, content |-> <<>>]
Raw(content) ==
  [kind |-> "raw", params |-> <<>>, reqs |-> <<>>, tests |-> <<>>,
   standards |-> <<>>, links |-> <<>>, content |-> content]
Missing == [Raw(<<>>) EXCEPT !.kind = "missing"]
\* a link written as a test label whose text and target the requirement pattern
\* matches as well
LabelLink(text, target) == [kind |-> "label", text |-> text, target |-> target, key |-> target]
\* a document whose links are of that sort
Labelled(params, links) ==
  [Document(params, <<>>, <<>>, <<>>, links) EXCEPT !.kind = "labelled"]
\* a document without metadata: a text and then the links; and one whose links stand
\* between the two delimiters
Plain(before, links) == [Raw(before) EXCEPT !.kind = "plain", !.links = links]
Enclosed(links) == [Raw(<<>>) EXCEPT !.kind = "enclosed", !.links = links]

ScalarBlock(key, items) ==
  IF Len(items) = 0 THEN <<>>
  ELSE <<" ", " ">> \o key \o <<":", "\n">> \o Concat([i \in 1..Len(items) |-> <<" ", " ", " ", " ", "-", " ">> \o items[i] \o <<"\n">>])

ReqBlock(reqs) ==
  IF Len(reqs) = 0 THEN <<>>
  ELSE <<" ", " ", "r", "e", "q", "u", "i", "r", "e", "m", "e", "n", "t", "s", ":", "\n">>
       \o Concat([i \in 1..Len(reqs) |->
            IF Len(reqs[i].path) = 0 THEN <<" ", " ", " ", " ", "-", " ", "v", "e", "r", "s", "i", "o", "n", ":", " ">> \o reqs[i].version \o <<"\n">>
            ELSE <<" ", " ", " ", " ", "-", " ", "p", "a", "t", "h", ":", " ">> \o reqs[i].path \o <<"\n">>
                 \o (IF Len(reqs[i].version) = 0 THEN <<>>
                     ELSE <<" ", " ", " ", " ", " ", " ", "v", "e", "r", "s", "i", "o", "n", ":", " ">> \o reqs[i].version \o <<"\n">>)])

\* an entry of references.requirements as written: a scalar, or a map with or without
\* each of the keys path and version
SchemaEntry(is_map, has_path, path, has_version, version) ==
  [is_map |-> is_map, has_path |-> has_path, path |-> path,
   has_version |-> has_version, version |-> version]

SchemaEntryText(e) ==
  LET keys == (IF e.has_path THEN <<<<"p", "a", "t", "h", ":", " ">> \o e.path>> ELSE <<>>)
              \o (IF e.has_version THEN <<<<"v", "e", "r", "s", "i", "o", "n", ":", " ">> \o e.version>> ELSE <<>>)
      written == IF Len(keys) = 0 THEN <<<<"d", "e", "s", "c", "r", "i", "p", "t", "i", "o", "n", ":", " ", "x">>>> ELSE keys
  IN IF ~e.is_map THEN <<" ", " ", " ", " ", "-", " ">> \o e.path \o <<"\n">>
     ELSE Concat([i \in 1..Len(written) |->
                    (IF i = 1 THEN <<" ", " ", " ", " ", "-", " ">> ELSE <<" ", " ", " ", " ", " ", " ">>) \o written[i] \o <<"\n">>])

\* a document that declares only requirements, its entries of any shape
SchemaDocument(entries, links) ==
  [Raw(<<>>) EXCEPT !.kind = "schema", !.reqs = entries, !.links = links]

\* the text of a document
Render(d) ==
  IF d.kind = "schema"
  THEN <<"-", "-", "-", "\n", "i", "d", ":", " ", "R", "1", "\n", "v", "e", "r", "s", "i", "o", "n", ":", " ", "1", "\n", "r", "e", "f", "e", "r", "e", "n", "c", "e", "s", ":", "\n">>
       \o (IF Len(d.reqs) = 0 THEN <<>> ELSE <<" ", " ", "r", "e", "q", "u", "i", "r", "e", "m", "e", "n", "t", "s", ":", "\n">>)
       \o Concat([i \in 1..Len(d.reqs) |-> SchemaEntryText(d.reqs[i])])
       \o <<"-", "-", "-", "\n", "#", " ", "R", "1", "\n">>
       \o Concat([i \in 1..Len(d.links) |-> LinkText(d.links[i])])
  ELSE IF d.kind = "plain"
  THEN d.content \o Concat([i \in 1..Len(d.links) |-> LinkText(d.links[i])])
  ELSE IF d.kind = "enclosed"
  THEN <<"-", "-", "-", "\n">> \o Concat([i \in 1..Len(d.links) |-> LinkText(d.links[i])])
       \o <<"-", "-", "-", "\n", "#", " ", "R", "1", "\n">>
  ELSE IF d.kind \notin {"document", "labelled"} THEN d.content
  ELSE <<"-", "-", "-", "\n", "i", "d", ":", " ", "R", "1", "\n", "v", "e", "r", "s", "i", "o", "n", ":", " ", "1", "\n", "r", "e", "f", "e", "r", "e", "n", "c", "e", "s", ":", "\n">>
       \o ScalarBlock(<<"p", "a", "r", "a", "m", "e", "t", "e", "r", "s">>, d.params)
       \o ReqBlock(d.reqs)
       \o ScalarBlock(<<"s", "t", "a", "n", "d", "a", "r", "d", "s">>, d.standards)
       \o ScalarBlock(<<"t", "e", "s", "t", "s">>, d.tests)
       \o <<"-", "-", "-", "\n", "#", " ", "R", "1", "\n">>
       \o Concat([i \in 1..Len(d.links) |-> LinkText(d.links[i])])

\* the sequences over S of length at most n
SeqsUpTo(S, n) == UNION {[1..k -> S] : k \in 0..n}

(***************************************************************************)
(* The documents and references the runs are drawn from.                   *)
(***************************************************************************)
ParamGood == ParamLink(<<"a">>, <<"/", "p", ".", "b", "z", "l", "#", "a">>)
ParamGoodB == ParamLink(<<"b">>, <<"/", "p", ".", "b", "z", "l", "#", "b">>)
ParamMismatch == ParamLink(<<"a">>, <<"/", "p", ".", "b", "z", "l", "#", "b">>)
ParamDangling == ParamLink(<<"a">>, <<"/", "q", ".", "b", "z", "l", "#", "a">>)
ParamLinks == {ParamGood, ParamGoodB, ParamMismatch, ParamDangling}
ParamEntries == {<<"/", "p", ".", "b", "z", "l", "#", "a">>, <<"/", "p", ".", "b", "z", "l", "#", "b">>, <<"a">>}

ReqGood == ReqLink(<<"R", "2">>, <<"/", "r", "/", "R", "2", ".", "m", "d">>, <<"/", "r", "/", "R", "2", ".", "m", "d">>)
ReqVersioned == ReqLink(<<"R", "2">>, <<"/", "r", "/", "R", "2", ".", "m", "d", "?", "v", "e", "r", "s", "i", "o", "n", "=", "2">>, <<"/", "r", "/", "R", "2", ".", "m", "d">>)
ReqInline == ReqLink(<<"R", "4">>, <<"/", "r", "/", "m", ".", "m", "d", "?", "v", "e", "r", "s", "i", "o", "n", "=", "2", "#", "R", "4">>, <<"/", "r", "/", "m", ".", "m", "d", "#", "R", "4">>)
ReqWrongId == ReqLink(<<"R", "9">>, <<"/", "r", "/", "R", "3", ".", "m", "d">>, <<"/", "r", "/", "R", "3", ".", "m", "d">>)
ReqLinks == {ReqGood, ReqVersioned, ReqInline, ReqWrongId}
ReqEntries ==
  {ReqEntry(<<"/", "r", "/", "R", "2", ".", "m", "d">>, <<"2">>), ReqEntry(<<"/", "r", "/", "m", ".", "m", "d", "#", "R", "4">>, <<"1">>),
   ReqEntry(<<"/", "r", "/", "R", "3", ".", "m", "d">>, <<>>), ReqEntry(<<>>, <<"1">>)}

TestGood == TestLink(<<"t", "a">>, <<"/", "/", "t", ":", "t", "a">>)
TestGoodB == TestLink(<<"t", "b">>, <<"/", "/", "t", "2", ":", "t", "b">>)
TestMismatch == TestLink(<<"t", "a">>, <<"/", "/", "t", "2", ":", "t", "b">>)
TestNoBuild == TestLink(<<"t", "a">>, <<"/", "/", "t", "4", ":", "t", "a">>)
TestLinks == {TestGood, TestGoodB, TestMismatch, TestNoBuild}
TestEntries == {<<"/", "/", "t", ":", "t", "a">>, <<"/", "/", "t", "2", ":", "t", "b">>, <<"t", "a">>}

StandardEntries == {<<"I", "S", "O", " ", "2", "6", "2", "6", "2", ":", "2", "0", "1", "8">>, <<"M", "I", "S", "R", "A", " ", "C">>, <<"M", "I", "S", "R", "A", "-", "C", ":", "2", "0", "1", "2">>}

\* documents that vary one kind of reference
ParamDocuments ==
  {Document(ps, <<>>, <<>>, <<>>, ls) :
     ps \in SeqsUpTo(ParamEntries, MaxDeclared), ls \in SeqsUpTo(ParamLinks, MaxLinks)}
ReqDocuments ==
  {Document(<<>>, rs, <<>>, <<>>, ls) :
     rs \in SeqsUpTo(ReqEntries, MaxDeclared), ls \in SeqsUpTo(ReqLinks, MaxLinks)}
TestDocuments ==
  {Document(<<>>, <<>>, ts, <<>>, ls) :
     ts \in SeqsUpTo(TestEntries, MaxDeclared), ls \in SeqsUpTo(TestLinks, MaxLinks)}
StandardDocuments ==
  {Document(<<>>, <<>>, <<>>, ss, ls) :
     ss \in SeqsUpTo(StandardEntries, MaxDeclared), ls \in {<<>>, <<TestNoBuild>>}}

\* documents that combine the kinds: each kind consistent, or with defects
MixedDocuments ==
  {Document(p[1], r[1], t[1], s, p[2] \o r[2] \o t[2]) :
     p \in {<<<<<<"/", "p", ".", "b", "z", "l", "#", "a">>>>, <<ParamGood>>>>,
            <<<<<<"/", "p", ".", "b", "z", "l", "#", "b">>, <<"/", "p", ".", "b", "z", "l", "#", "a">>>>, <<ParamDangling, ParamGoodB>>>>},
     r \in {<<<<ReqEntry(<<"/", "r", "/", "R", "2", ".", "m", "d">>, <<"2">>)>>, <<ReqVersioned>>>>,
            <<<<ReqEntry(<<"/", "r", "/", "m", ".", "m", "d", "#", "R", "4">>, <<>>), ReqEntry(<<"/", "r", "/", "R", "2", ".", "m", "d">>, <<"2">>)>>,
              <<ReqWrongId, ReqInline>>>>},
     t \in {<<<<<<"/", "/", "t", ":", "t", "a">>>>, <<TestGood>>>>,
            <<<<<<"/", "/", "t", ":", "t", "a">>, <<"/", "/", "t", "2", ":", "t", "b">>>>, <<TestNoBuild, TestGoodB>>>>},
     s \in {<<>>, <<<<"M", "I", "S", "R", "A", " ", "C">>, <<"I", "S", "O", " ", "2", "6", "2", "6", "2", ":", "2", "0", "1", "8">>>>}}

\* the document of the specification's example, as written and with the entry the
\* program matches
BrakeByName ==
  Document(<<<<"b", "r", "a", "k", "e", "_", "d", "i", "s", "t", "a", "n", "c", "e">>>>, <<>>, <<>>, <<>>,
           <<ParamLink(<<"b", "r", "a", "k", "e", "_", "d", "i", "s", "t", "a", "n", "c", "e">>, <<"/", "p", "a", "r", "a", "m", "s", "/", "b", "r", "a", "k", "e", ".", "b", "z", "l", "#", "b", "r", "a", "k", "e", "_", "d", "i", "s", "t", "a", "n", "c", "e">>)>>)
BrakeByTarget ==
  Document(<<<<"/", "p", "a", "r", "a", "m", "s", "/", "b", "r", "a", "k", "e", ".", "b", "z", "l", "#", "b", "r", "a", "k", "e", "_", "d", "i", "s", "t", "a", "n", "c", "e">>>>, <<>>, <<>>, <<>>,
           <<ParamLink(<<"b", "r", "a", "k", "e", "_", "d", "i", "s", "t", "a", "n", "c", "e">>, <<"/", "p", "a", "r", "a", "m", "s", "/", "b", "r", "a", "k", "e", ".", "b", "z", "l", "#", "b", "r", "a", "k", "e", "_", "d", "i", "s", "t", "a", "n", "c", "e">>)>>)

\* texts that are not written from a description
ScalarReferences == Raw(<<"-", "-", "-", "\n", "i", "d", ":", " ", "R", "1", "\n", "r", "e", "f", "e", "r", "e", "n", "c", "e", "s", ":", " ", "n", "o", "n", "e", "\n", "-", "-", "-", "\n", "s", "e", "e", " ", "[", "@", "a", "]", "(", "/", "q", ".", "b", "z", "l", "#", "a", ")", " ", "h", "e", "r", "e", "\n">>)
NoBlock == Raw(<<"#", " ", "R", "1", "\n", "s", "e", "e", " ", "[", "@", "a", "]", "(", "/", "q", ".", "b", "z", "l", "#", "a", ")", " ", "h", "e", "r", "e", "\n">>)

\* documents without metadata: no block, a block that is not closed, an empty block,
\* and links between the delimiters
PlainLinks == {ParamGood, ParamDangling, ReqGood, ReqWrongId, TestMismatch, TestNoBuild}
PlainDocuments ==
  {Plain(before, ls) :
     before \in {<<"#", " ", "R", "1", "\n">>, <<"-", "-", "-", "\n", "i", "d", ":", " ", "R", "1", "\n">>, <<"-", "-", "-", "\n", "-", "-", "-", "\n">>},
     ls \in SeqsUpTo(PlainLinks, MaxLinks)}
  \cup {Enclosed(ls) : ls \in SeqsUpTo({ParamGood, ParamDangling, ParamMismatch}, MaxLinks)}

\* documents whose requirement entries have every shape
GoodEntry == SchemaEntry(TRUE, TRUE, <<"/", "r", "/", "R", "2", ".", "m", "d">>, TRUE, <<"2">>)
EmptyPathEntry == SchemaEntry(TRUE, TRUE, <<>>, TRUE, <<"1">>)
NoKeysEntry == SchemaEntry(TRUE, FALSE, <<>>, FALSE, <<>>)
ScalarEntry == SchemaEntry(FALSE, FALSE, <<"/", "r", "/", "R", "2", ".", "m", "d">>, FALSE, <<>>)
NoVersionEntry == SchemaEntry(TRUE, TRUE, <<"/", "r", "/", "R", "3", ".", "m", "d">>, FALSE, <<>>)
NoPathEntry == SchemaEntry(TRUE, FALSE, <<>>, TRUE, <<"1">>)
SchemaEntries ==
  {GoodEntry, EmptyPathEntry, NoKeysEntry, ScalarEntry, NoVersionEntry, NoPathEntry}
SchemaDocuments ==
  {SchemaDocument(es, ls) :
     es \in SeqsUpTo(SchemaEntries, MaxDeclared), ls \in {<<>>, <<ReqGood>>}}

\* documents whose links match the requirement and the test pattern
LabelDoc == LabelLink(<<"T", "A">>, <<"/", "/", "t", ".", "m", "d", ":", "T", "A">>)
LabelledDocuments ==
  {Labelled(ps, ls) :
     ps \in {<<>>, <<<<"/", "p", ".", "b", "z", "l", "#", "a">>>>}, ls \in {<<LabelDoc>>, <<LabelDoc, LabelDoc>>}}

Documents ==
  LabelledDocuments \cup PlainDocuments \cup SchemaDocuments \cup ParamDocuments \cup ReqDocuments \cup TestDocuments \cup StandardDocuments
  \cup MixedDocuments \cup {BrakeByName, BrakeByTarget, ScalarReferences, NoBlock, Missing}

\* the documents of the runs over several files
BatchDocuments ==
  {Document(<<<<"/", "p", ".", "b", "z", "l", "#", "a">>>>, <<>>, <<>>, <<>>, <<ParamGood>>),
   Document(<<>>, <<ReqEntry(<<"/", "r", "/", "R", "2", ".", "m", "d">>, <<"2">>)>>, <<>>, <<>>, <<ReqLink(<<"R", "2">>, <<"/", "r", "/", "R", "2", ".", "m", "d", "?", "v", "e", "r", "s", "i", "o", "n", "=", "1">>, <<"/", "r", "/", "R", "2", ".", "m", "d">>)>>),
   Document(<<>>, <<>>, <<<<"/", "/", "t", ":", "t", "a">>>>, <<>>, <<TestMismatch, TestMismatch>>),
   ScalarReferences, NoBlock, Missing}

Corpus(a, b) == (<<"/", "d", "/", "a", ".", "m", "d">> :> a) @@ (<<"/", "d", "/", "b", ".", "m", "d">> :> b)

Runs ==
  {[corpus |-> Corpus(d, Missing), workspace |-> Workspace,
    argv |-> <<workspace_root, <<"/", "d", "/", "a", ".", "m", "d">>>>] : d \in Documents}
  \cup {[corpus |-> Corpus(a, b), workspace |-> w, argv |-> <<workspace_root>> \o fl] :
          a \in BatchDocuments, b \in BatchDocuments, w \in Workspaces,
          fl \in SeqsUpTo(DocPaths, MaxFiles)}

\* the files of the documents of a corpus
CorpusFiles(c) ==
  [p \in {q \in DOMAIN c : c[q].kind # "missing"} |-> File(Render(c[p]))]

(***************************************************************************)
(* main(): the batch driver.                                               *)
(*   corpus      what each document path holds (the description fs is      *)
(*               written from)                                             *)
(*   fs          the filesystem                                            *)
(*   argv        sys.argv[1:]: the workspace root, then the documents      *)
(*   pc          "start", "loop" (in the for loop), "exited"               *)
(*   idx         the position of the for loop in requirement_files         *)
(*   errors      the list the last validate_requirement_file returned      *)
(*   all_errors  the aggregate list                                        *)
(*   stdout      what has been printed                                     *)
(*   exit_code   the process's exit status, -1 while it runs               *)
(*   call, ret   a direct call of a resolver (the version as its digits)    *)
(*               and what it returned                                      *)
(***************************************************************************)
VARIABLES corpus, fs, argv, pc, idx, errors, all_errors, stdout, exit_code, call, ret

vars == <<corpus, fs, argv, pc, idx, errors, all_errors, stdout, exit_code, call, ret>>

NoCall == [fn |-> "none", text |-> <<>>, target |-> <<>>, version |-> <<>>]

\* sys.argv[2:]
requirement_files == DropFirst(argv, 1)

Init ==
  /\ \E run \in Runs :
       /\ corpus = run.corpus
       /\ fs = run.workspace @@ CorpusFiles(run.corpus)
       /\ argv = run.argv
  /\ pc = "start"
  /\ idx = 1
  /\ errors = <<>>
  /\ all_errors = <<>>
  /\ stdout = <<>>
  /\ exit_code = -1
  /\ call = NoCall
  /\ ret = Ok

\* len(sys.argv) < 3: print the usage and exit with status 1
Usage ==
  /\ pc = "start"
  /\ Len(argv) < 2
  /\ stdout' = Append(stdout, [type |-> "usage"])
  /\ exit_code' = 1
  /\ pc' = "exited"
  /\ UNCHANGED <<corpus, fs, argv, idx, errors, all_errors, call, ret>>

\* workspace_root and requirement_files are read; all_errors = []
Start ==
  /\ pc = "start"
  /\ Len(argv) >= 2
  /\ all_errors' = <<>>
  /\ idx' = 1
  /\ pc' = "loop"
  /\ UNCHANGED <<corpus, fs, argv, errors, stdout, exit_code, call, ret>>

\* one iteration of the loop: the document is validated and its errors are appended
ValidateFile ==
  /\ pc = "loop"
  /\ idx <= Len(requirement_files)
  /\ \E r \in validate_requirement_file(requirement_files[idx], argv[1], fs) :
       /\ ~r.raised
       /\ errors' = r.errors
       /\ all_errors' = all_errors \o r.errors
       /\ stdout' = stdout \o r.warnings
  /\ idx' = idx + 1
  /\ UNCHANGED <<corpus, fs, argv, pc, exit_code, call, ret>>

\* validate_requirement_file raises: the exception is not caught, the interpreter
\* prints the traceback to stderr and exits with status 1
ValidateFileRaises ==
  /\ pc = "loop"
  /\ idx <= Len(requirement_files)
  /\ \E r \in validate_requirement_file(requirement_files[idx], argv[1], fs) : r.raised
  /\ exit_code' = 1
  /\ pc' = "exited"
  /\ UNCHANGED <<corpus, fs, argv, idx, errors, all_errors, stdout, call, ret>>

\* after the loop, all_errors is not empty: the errors are printed, exit status 1
ReportFailure ==
  /\ pc = "loop"
  /\ idx > Len(requirement_files)
  /\ Len(all_errors) > 0
  /\ stdout' = stdout \o <<[type |-> "failed"]>>
                 \o [i \in 1..Len(all_errors) |-> [type |-> "ERROR", error |-> all_errors[i]]]
  /\ exit_code' = 1
  /\ pc' = "exited"
  /\ UNCHANGED <<corpus, fs, argv, idx, errors, all_errors, call, ret>>

\* after the loop, all_errors is empty: the count is printed, exit status 0
ReportSuccess ==
  /\ pc = "loop"
  /\ idx > Len(requirement_files)
  /\ Len(all_errors) = 0
  /\ stdout' = Append(stdout, [type |-> "passed", count |-> Len(requirement_files)])
  /\ exit_code' = 0
  /\ pc' = "exited"
  /\ UNCHANGED <<corpus, fs, argv, idx, errors, all_errors, call, ret>>

Next ==
  \/ Usage
  \/ Start
  \/ ValidateFile
  \/ ValidateFileRaises
  \/ ReportFailure
  \/ ReportSuccess

Spec == Init /\ [][Next]_vars


(***************************************************************************)
(* The resolvers called on their own: one call of one of the three, with   *)
(* the link text and target of a reference, against a filesystem.          *)
(***************************************************************************)
ParamCalls ==
  {[fn |-> "param", text |-> t, target |-> p, version |-> <<>>] :
     t \in {<<"a">>, <<"b">>, <<"c">>},
     p \in {<<"/", "p", ".", "b", "z", "l", "#", "a">>, <<"/", "p", ".", "b", "z", "l", "#", "b">>, <<"p", ".", "b", "z", "l", "#", "a">>, <<"/", "p", ".", "b", "z", "l">>, <<"/", "q", ".", "b", "z", "l", "#", "a">>,
            <<"/", "u", ".", "b", "z", "l", "#", "a">>, <<"/", "p", ".", "b", "z", "l", "#", "a", "#", "b">>, <<"/", "p", ".", "b", "z", "l", "#", "c">>}}

ReqCalls ==
  {[fn |-> "req", text |-> t, target |-> p, version |-> v] :
     t \in {<<"R", "1">>, <<"R", "2">>, <<"R", "3">>, <<"R", "4">>, <<"R", "9">>, <<"R", "1", "0">>},
     p \in {<<"/", "r", "/", "R", "2", ".", "m", "d">>, <<"/", "r", "/", "R", "3", ".", "m", "d">>, <<"/", "r", "/", "m", ".", "m", "d">>, <<"/", "r", "/", "m", ".", "m", "d", "#", "R", "4">>, <<"/", "r", "/", "n", ".", "t", "x", "t">>,
            <<"/", "r", "/", "u", ".", "m", "d">>, <<"/", "r", "/", "x", ".", "m", "d">>},
     v \in {<<>>, <<"1">>, <<"2">>, <<"3">>}}

TestCalls ==
  {[fn |-> "test", text |-> t, target |-> l, version |-> <<>>] :
     t \in {<<"t", "a">>, <<"t", "b">>, <<"t", "c">>},
     l \in {<<"/", "/", "t", ":", "t", "a">>, <<"/", "/", "t", "2", ":", "t", "b">>, <<"/", "/", "t", "3", ":", "t", "c">>, <<"/", "/", "t", "4", ":", "t", "a">>, <<"/", "/", "t", "5", ":", "t", "a">>, <<"/", "/", "t", ":", "t", "b">>,
            <<"t", ":", "t", "a">>, <<"/", "t", ":", "t", "a">>, <<"/", "/", "t">>, <<"/", "/", "t", ":", "t", "a", ":", "x">>}}

\* ref_version: None, or the int of the digits of the version query
RefVersion(digits) == IF Len(digits) = 0 THEN PyNone ELSE PyInt(int(digits))

InitResolve ==
  /\ corpus = Corpus(Missing, Missing)
  /\ fs \in Workspaces
  /\ argv = <<workspace_root>>
  /\ pc = "idle"
  /\ idx = 1
  /\ errors = <<>>
  /\ all_errors = <<>>
  /\ stdout = <<>>
  /\ exit_code = -1
  /\ call = NoCall
  /\ ret = Ok

ResolveParameter ==
  /\ pc = "idle"
  /\ \E c \in ParamCalls :
       /\ call' = c
       /\ ret' = validate_parameter_reference(c.text, c.target, argv[1], fs)
  /\ pc' = "returned"
  /\ UNCHANGED <<corpus, fs, argv, idx, errors, all_errors, stdout, exit_code>>

\* the warnings are printed before the function returns
ResolveRequirement ==
  /\ pc = "idle"
  /\ \E c \in ReqCalls :
       /\ call' = c
       /\ \E r \in {validate_requirement_reference(c.text, c.target, argv[1],
                                                   RefVersion(c.version), <<"/", "d", "/", "a", ".", "m", "d">>, fs)} :
            /\ ret' = r
            /\ stdout' = stdout \o r.warnings
  /\ pc' = "returned"
  /\ UNCHANGED <<corpus, fs, argv, idx, errors, all_errors, exit_code>>

ResolveTest ==
  /\ pc = "idle"
  /\ \E c \in TestCalls :
       /\ call' = c
       /\ ret' = validate_test_reference(c.text, c.target, argv[1], fs)
  /\ pc' = "returned"
  /\ UNCHANGED <<corpus, fs, argv, idx, errors, all_errors, stdout, exit_code>>

NextResolve ==
  \/ ResolveParameter
  \/ ResolveRequirement
  \/ ResolveTest

SpecResolve == InitResolve /\ [][NextResolve]_vars

(***************************************************************************)
(* The parsers called on their own: one call of parse_frontmatter on a     *)
(* text, or of parse_inline_yaml_for_requirement on a text and an id.      *)
(***************************************************************************)
Openings == {<<>>, <<"-", "-", "-", "\n">>, <<"-", "-", "-", "-", "\n">>, <<"-", "-", "-", " ", "\n">>, <<"-", "-", "-", "x", "\n">>, <<" ", "-", "-", "-", "\n">>, <<"-", "-", "\n">>}
Blocks ==
  {<<>>, <<"i", "d", ":", " ", "R", "1", "\n">>, <<"v", "e", "r", "s", "i", "o", "n", ":", " ", "2", "\n">>, <<"i", "d", ":", " ", "R", "1", "\n", "v", "e", "r", "s", "i", "o", "n", ":", " ", "1", "2", "\n", "o", "w", "n", "e", "r", ":", " ", "2", "a", "\n">>,
   <<"i", "d", ":", " ", "R", "1", "\n", "r", "e", "f", "e", "r", "e", "n", "c", "e", "s", ":", "\n", " ", " ", "r", "e", "q", "u", "i", "r", "e", "m", "e", "n", "t", "s", ":", "\n", " ", " ", " ", " ", "-", " ", "p", "a", "t", "h", ":", " ", "/", "r", "/", "R", "2", ".", "m", "d", "\n", " ", " ", " ", " ", " ", " ", "v", "e", "r", "s", "i", "o", "n", ":", " ", "1", "\n">>}
Closings == {<<>>, <<"-", "-", "-", "\n">>, <<"-", "-", "-">>, <<" ", "-", "-", "-", " ", "\n">>, <<"-", "-", "-", "-", "\n">>}
Rests == {<<>>, <<"#", " ", "R", "1", "\n", "t", "e", "x", "t", "\n">>}

\* blocks in which a key with an empty value is followed by a more-indented line
TopLevelList == <<"t", "a", "g", "s", ":", "\n", " ", " ", "-", " ", "a", "\n", " ", " ", "-", " ", "b", "\n">>
TopLevelMap == <<"m", "e", "t", "a", ":", "\n", " ", " ", "o", "w", "n", "e", "r", ":", " ", "x", "\n">>
NestedList == <<"r", "e", "f", "e", "r", "e", "n", "c", "e", "s", ":", "\n", " ", " ", "p", "a", "r", "a", "m", "e", "t", "e", "r", "s", ":", "\n", " ", " ", " ", " ", "-", " ", "a", "\n", " ", " ", " ", " ", "-", " ", "b", "\n">>
NestedMap == <<"r", "e", "f", "e", "r", "e", "n", "c", "e", "s", ":", "\n", " ", " ", "m", "e", "t", "a", ":", "\n", " ", " ", " ", " ", "o", "w", "n", "e", "r", ":", " ", "x", "\n">>
Framed(block) == <<"-", "-", "-", "\n">> \o block \o <<"-", "-", "-", "\n">>
LookAheadInputs == {Framed(b) : b \in {TopLevelList, TopLevelMap, NestedList, NestedMap}}

\* a requirements list with one multi-line map item, then the sibling key
\* tests with one item, the reference kinds indented by `width` spaces
IndentWidths == {2, 3, 4}
Spaces(n) == [i \in 1..n |-> " "]
SiblingBlock(width) ==
  <<"i", "d", ":", " ", "R", "1", "\n", "r", "e", "f", "e", "r", "e", "n", "c", "e", "s", ":", "\n">>
    \o Spaces(width) \o <<"r", "e", "q", "u", "i", "r", "e", "m", "e", "n", "t", "s", ":", "\n">>
    \o Spaces(2 * width) \o <<"-", " ", "p", "a", "t", "h", ":", " ", "/", "r", "/", "R", "2", ".", "m", "d", "\n">>
    \o Spaces(2 * width) \o <<" ", " ", "v", "e", "r", "s", "i", "o", "n", ":", " ", "2", "\n">>
    \o Spaces(width) \o <<"t", "e", "s", "t", "s", ":", "\n">>
    \o Spaces(2 * width) \o <<"-", " ", "/", "/", "t", ":", "a", "\n">>
SiblingInputs == {Framed(SiblingBlock(w)) : w \in IndentWidths}

ParseInputs ==
  {o \o b \o c \o r : o \in Openings, b \in Blocks, c \in Closings, r \in Rests}
  \cup LookAheadInputs \cup SiblingInputs

InlineInputs ==
  {<<"#", " ", "M", "\n", "#", "#", " ">> \o h \o <<"\n", "BQ", "BQ", "BQ", "y", "a", "m", "l", "\n">> \o l \o <<"BQ", "BQ", "BQ", "\n", "t", "e", "x", "t", "\n">> :
     h \in {<<"R", "4">>, <<"R", "5">>},
     l \in {<<>>, <<"v", "e", "r", "s", "i", "o", "n", ":", " ", "1", "\n">>, <<"v", "e", "r", "s", "i", "o", "n", ":", " ", "0", "0", "7", "\n", "o", "w", "n", "e", "r", ":", " ", "2", "a", "\n">>, <<"v", "e", "r", "s", "i", "o", "n", ":", "\n">>,
            <<"s", "i", "l", ":", " ", "2", "\n", "a", "c", "t", "i", "v", "e", ":", " ", "t", "r", "u", "e", "\n">>}}

InitParse ==
  /\ corpus = Corpus(Missing, Missing)
  /\ fs = EmptyWorkspace
  /\ argv = <<workspace_root>>
  /\ pc = "idle"
  /\ idx = 1
  /\ errors = <<>>
  /\ all_errors = <<>>
  /\ stdout = <<>>
  /\ exit_code = -1
  /\ call = NoCall
  /\ ret = Ok

\* frontmatter, body = parse_frontmatter(content)
ParseFrontmatter ==
  /\ pc = "idle"
  /\ \E content \in ParseInputs :
       /\ call' = [fn |-> "parse_frontmatter", text |-> content, target |-> <<>>,
                   version |-> <<>>]
       /\ ret' = parse_frontmatter(content)
  /\ pc' = "returned"
  /\ UNCHANGED <<corpus, fs, argv, idx, errors, all_errors, stdout, exit_code>>

\* parse_inline_yaml_for_requirement(content, req_id)
ParseInlineYaml ==
  /\ pc = "idle"
  /\ \E content \in InlineInputs, req_id \in {<<"R", "4">>, <<"R", "5">>} :
       /\ call' = [fn |-> "parse_inline_yaml_for_requirement", text |-> content,
                   target |-> req_id, version |-> <<>>]
       /\ ret' = [raised |-> FALSE,
                  frontmatter |-> parse_inline_yaml_for_requirement(content, req_id),
                  body |-> <<>>]
  /\ pc' = "returned"
  /\ UNCHANGED <<corpus, fs, argv, idx, errors, all_errors, stdout, exit_code>>

NextParse ==
  \/ ParseFrontmatter
  \/ ParseInlineYaml

SpecParse == InitParse /\ [][NextParse]_vars

(***************************************************************************)
(* fire/parameters/validator.py: ParameterValidator.  A call returns the   *)
(* exception it raises: "none", "ValidationError" with the message's kind, *)
(* or the exception Python raises for an operation on a value of the wrong *)
(* type ("TypeError", "KeyError").                                         *)
(***************************************************************************)
PyFloat(text) == [t |-> "float", v |-> text]

Passed == [exc |-> "none", msg |-> "none"]
ValidationError(msg) == [exc |-> "ValidationError", msg |-> msg]
TypeError == [exc |-> "TypeError", msg |-> "none"]
KeyError == [exc |-> "KeyError", msg |-> "none"]

\* first; rest  (rest is not run when first raises)
Then(first, rest) == IF first.exc # "none" THEN first ELSE rest

\* the checks of a for loop, in order: the outcome of the first that raises
ForEach(checks) ==
  LET raising == {i \in 1..Len(checks) : checks[i].exc # "none"}
  IN IF raising = {} THEN Passed ELSE checks[Min(raising)]

VALID_TYPES == {<<"f", "l", "o", "a", "t">>, <<"i", "n", "t", "e", "g", "e", "r">>, <<"s", "t", "r", "i", "n", "g">>, <<"b", "o", "o", "l", "e", "a", "n">>, <<"t", "a", "b", "l", "e">>}

\* hash(x) raises TypeError
Unhashable(x) == x.t \in {"list", "dict"}

\* key in x, for a str key: "yes", "no", or "TypeError" when x is not a container
In(key, x) ==
  CASE x.t = "dict" -> IF key \in DOMAIN x.v THEN "yes" ELSE "no"
    [] x.t = "str" -> IF contains(x.v, key) THEN "yes" ELSE "no"
    [] x.t = "list" ->
         IF \E i \in 1..Len(x.v) : x.v[i].t = "str" /\ x.v[i].v = key THEN "yes" ELSE "no"
    [] OTHER -> "TypeError"

\* x[key] for a str key can be evaluated (x is a dict that has the key)
CanIndex(x, key) == x.t = "dict" /\ key \in DOMAIN x.v
\* the exception x[key] raises when it cannot
IndexError(x) == IF x.t = "dict" THEN KeyError ELSE TypeError

\* x == s for a str s
IsStr(x, s) == x.t = "str" /\ x.v = s

\* isinstance(value, int): bool is a subclass of int
IsInt(value) == value.t \in {"int", "bool"}

\* _validate_value_type(value, expected_type, context)
validate_value_type(value, expected_type) ==
  IF IsStr(expected_type, <<"f", "l", "o", "a", "t">>)
  THEN (IF ~(IsInt(value) \/ value.t = "float")
        THEN ValidationError("must_be_number") ELSE Passed)
  ELSE IF IsStr(expected_type, <<"i", "n", "t", "e", "g", "e", "r">>)
  THEN (IF ~IsInt(value) \/ value.t = "bool"
        THEN ValidationError("must_be_integer") ELSE Passed)
  ELSE IF IsStr(expected_type, <<"s", "t", "r", "i", "n", "g">>)
  THEN (IF value.t # "str" THEN ValidationError("must_be_string") ELSE Passed)
  ELSE IF IsStr(expected_type, <<"b", "o", "o", "l", "e", "a", "n">>)
  THEN (IF value.t # "bool" THEN ValidationError("must_be_boolean") ELSE Passed)
  ELSE Passed

\* _validate_parameter_value(param)
validate_parameter_value(param) ==
  validate_value_type(param.v[<<"v", "a", "l", "u", "e">>], param.v[<<"t", "y", "p", "e">>])

\* the check of one column definition
ValidateColumn(col) ==
  IF In(<<"n", "a", "m", "e">>, col) = "TypeError" THEN TypeError
  ELSE IF In(<<"n", "a", "m", "e">>, col) = "no" \/ In(<<"t", "y", "p", "e">>, col) = "no"
  THEN ValidationError("invalid_column_definition")
  ELSE IF ~CanIndex(col, <<"t", "y", "p", "e">>) THEN IndexError(col)
  ELSE IF Unhashable(col.v[<<"t", "y", "p", "e">>]) THEN TypeError
  ELSE IF ~(col.v[<<"t", "y", "p", "e">>].t = "str" /\ col.v[<<"t", "y", "p", "e">>].v \in VALID_TYPES \ {<<"t", "a", "b", "l", "e">>})
  THEN ValidationError("invalid_column_type")
  ELSE Passed

\* the check of one row: a list of expected_cols cells, each of its column's type
ValidateRow(row, columns) ==
  IF row.t # "list" THEN ValidationError("row_not_list")
  ELSE IF Len(row.v) # Len(columns.v) THEN ValidationError("row_length")
  ELSE ForEach([i \in 1..Len(row.v) |-> validate_value_type(row.v[i], columns.v[i].v[<<"t", "y", "p", "e">>])])

\* _validate_table_parameter(param): param is a dict with name, type and description
validate_table_parameter(param) ==
  IF <<"c", "o", "l", "u", "m", "n", "s">> \notin DOMAIN param.v THEN ValidationError("table_no_columns_field")
  ELSE IF <<"r", "o", "w", "s">> \notin DOMAIN param.v THEN ValidationError("table_no_rows_field")
  ELSE LET columns == param.v[<<"c", "o", "l", "u", "m", "n", "s">>]
           rows == param.v[<<"r", "o", "w", "s">>]
       IN IF columns.t # "list" \/ Len(columns.v) = 0
          THEN ValidationError("table_no_columns")
          ELSE Then(ForEach([i \in 1..Len(columns.v) |-> ValidateColumn(columns.v[i])]),
                    IF rows.t # "list" THEN ValidationError("rows_not_list")
                    ELSE ForEach([i \in 1..Len(rows.v) |-> ValidateRow(rows.v[i], columns)]))

\* the first of the required fields that is not in param, <<>> when all are; "TypeError"
\* is the outcome of `field not in param` when param is not a container
RequiredFields == <<<<"n", "a", "m", "e">>, <<"t", "y", "p", "e">>, <<"d", "e", "s", "c", "r", "i", "p", "t", "i", "o", "n">>>>
MissingField(param, fields) ==
  LET missing == {i \in 1..Len(fields) : In(fields[i], param) # "yes"}
  IN IF missing = {} THEN 0 ELSE Min(missing)

\* _validate_parameter(param, index)
validate_parameter(param) ==
  IF In(<<"n", "a", "m", "e">>, param) = "TypeError" THEN TypeError
  ELSE IF MissingField(param, RequiredFields) # 0 THEN ValidationError("param_missing_field")
  ELSE IF param.t # "dict" THEN TypeError
  ELSE LET param_type == param.v[<<"t", "y", "p", "e">>]
       IN IF Unhashable(param_type) THEN TypeError
          ELSE IF ~(param_type.t = "str" /\ param_type.v \in VALID_TYPES)
          THEN ValidationError("invalid_type")
          ELSE IF param_type.v = <<"t", "a", "b", "l", "e">> THEN validate_table_parameter(param)
          ELSE IF <<"v", "a", "l", "u", "e">> \notin DOMAIN param.v THEN ValidationError("missing_value")
          ELSE validate_parameter_value(param)

\* NAMESPACE_PATTERN.match(namespace): dot-separated identifiers; $ also matches before
\* a newline that ends the string
IsIdentifier(part) ==
  /\ Len(part) > 0
  /\ part[1] \in IdentStart
  /\ \A i \in 2..Len(part) : part[i] \in IdentChars
NAMESPACE_PATTERN(namespace) ==
  LET core == IF endswith(namespace, <<"\n">>) THEN SubSeq(namespace, 1, Len(namespace) - 1)
              ELSE namespace
      parts == split(core, ".")
  IN \A i \in 1..Len(parts) : IsIdentifier(parts[i])

\* _validate_namespace(namespace)
validate_namespace(namespace) ==
  IF namespace.t # "str" THEN ValidationError("namespace_not_string")
  ELSE IF ~NAMESPACE_PATTERN(namespace.v) THEN ValidationError("invalid_namespace")
  ELSE Passed

\* the name of the parameter was seen at an earlier position
SeenBefore(parameters, i) ==
  \E j \in 1..(i - 1) :
    /\ CanIndex(parameters[j], <<"n", "a", "m", "e">>)
    /\ ~Unhashable(parameters[j].v[<<"n", "a", "m", "e">>])
    /\ PyEq(parameters[j].v[<<"n", "a", "m", "e">>], parameters[i].v[<<"n", "a", "m", "e">>])

\* _validate_parameters(parameters)
validate_parameters(parameters) ==
  IF parameters.t # "list" THEN ValidationError("parameters_not_list")
  ELSE ForEach([i \in 1..Len(parameters.v) |->
                  Then(validate_parameter(parameters.v[i]),
                       IF Unhashable(parameters.v[i].v[<<"n", "a", "m", "e">>]) THEN TypeError
                       ELSE IF SeenBefore(parameters.v, i)
                       THEN ValidationError("duplicate_name")
                       ELSE Passed)])

\* _validate_required_fields(param_data)
validate_required_fields(param_data) ==
  IF In(<<"s", "c", "h", "e", "m", "a", "_", "v", "e", "r", "s", "i", "o", "n">>, param_data) = "TypeError" THEN TypeError
  ELSE IF MissingField(param_data, <<<<"s", "c", "h", "e", "m", "a", "_", "v", "e", "r", "s", "i", "o", "n">>, <<"n", "a", "m", "e", "s", "p", "a", "c", "e">>, <<"p", "a", "r", "a", "m", "e", "t", "e", "r", "s">>>>) # 0
  THEN ValidationError("missing_required_field")
  ELSE Passed

\* ParameterValidator.validate(param_data)
validate(param_data) ==
  Then(validate_required_fields(param_data),
       IF param_data.t # "dict" THEN TypeError
       ELSE Then(validate_namespace(param_data.v[<<"n", "a", "m", "e", "s", "p", "a", "c", "e">>]),
                 validate_parameters(param_data.v[<<"p", "a", "r", "a", "m", "e", "t", "e", "r", "s">>])))

\* CppGenerator._generate_header_guard(namespace)
upper(s) ==
  [i \in 1..Len(s) |->
     IF s[i] \in LowerChars THEN CodePoints[ord[s[i]] - ord["a"] + ord["A"]] ELSE s[i]]
replace(s, old, new) == [i \in 1..Len(s) |-> IF s[i] = old THEN new ELSE s[i]]
generate_header_guard(namespace) == upper(replace(namespace, ".", "_")) \o <<"_", "P", "A", "R", "A", "M", "S", "_", "H">>

(***************************************************************************)
(* fire/parameters/cpp_generator.py: CppGenerator.generate.  A call        *)
(* returns the exception it raises, "none" when it returns the header.     *)
(***************************************************************************)
AttributeError == [exc |-> "AttributeError", msg |-> "none"]
ValueError == [exc |-> "ValueError", msg |-> "none"]

TYPE_MAP == {<<"f", "l", "o", "a", "t">>, <<"i", "n", "t", "e", "g", "e", "r">>, <<"s", "t", "r", "i", "n", "g">>, <<"b", "o", "o", "l", "e", "a", "n">>}

\* x[key] for a str key
Index(x, key) == IF CanIndex(x, key) THEN Passed ELSE IndexError(x)

\* self.TYPE_MAP[type]
LookUpType(type) ==
  IF Unhashable(type) THEN TypeError
  ELSE IF type.t = "str" /\ type.v \in TYPE_MAP THEN Passed
  ELSE KeyError

\* _format_value(value, param_type)
format_value(value, param_type) ==
  IF IsStr(param_type, <<"s", "t", "r", "i", "n", "g">>)
  THEN (IF value.t = "str" THEN Passed ELSE AttributeError)
  ELSE IF \E t \in {<<"f", "l", "o", "a", "t">>, <<"i", "n", "t", "e", "g", "e", "r">>, <<"b", "o", "o", "l", "e", "a", "n">>} : IsStr(param_type, t)
  THEN Passed
  ELSE ValueError

\* for x in value
Iterate(value) == IF value.t \in {"list", "str", "dict"} THEN Passed ELSE TypeError
Each(value) == IF value.t = "list" THEN value.v ELSE <<>>

\* the body of the loop over the columns
GenerateColumn(col) ==
  Then(Index(col, <<"n", "a", "m", "e">>), Then(Index(col, <<"t", "y", "p", "e">>), LookUpType(DictGet(col.v, <<"t", "y", "p", "e">>))))

\* the body of the loop over the rows: zip stops at the shorter of row and columns
GenerateRow(row, columns) ==
  Then(Iterate(row),
       ForEach([i \in 1..Min({Len(Each(row)), Len(Each(columns))}) |->
                  Then(Index(columns.v[i], <<"t", "y", "p", "e">>),
                       format_value(row.v[i], DictGet(columns.v[i].v, <<"t", "y", "p", "e">>)))]))

\* _generate_table_parameter(param, lines)
generate_table_parameter(param) ==
  Then(Index(param, <<"c", "o", "l", "u", "m", "n", "s">>),
  Then(Index(param, <<"r", "o", "w", "s">>),
  Then(IF DictGet(param.v, <<"n", "a", "m", "e">>).t = "str" THEN Passed ELSE AttributeError,
  Then(Iterate(DictGet(param.v, <<"c", "o", "l", "u", "m", "n", "s">>)),
  Then(ForEach([i \in 1..Len(Each(DictGet(param.v, <<"c", "o", "l", "u", "m", "n", "s">>))) |->
                  GenerateColumn(DictGet(param.v, <<"c", "o", "l", "u", "m", "n", "s">>).v[i])]),
  Then(Index(param, <<"d", "e", "s", "c", "r", "i", "p", "t", "i", "o", "n">>),
  Then(Iterate(DictGet(param.v, <<"r", "o", "w", "s">>)),
       ForEach([i \in 1..Len(Each(DictGet(param.v, <<"r", "o", "w", "s">>))) |->
                  GenerateRow(DictGet(param.v, <<"r", "o", "w", "s">>).v[i],
                              DictGet(param.v, <<"c", "o", "l", "u", "m", "n", "s">>))]))))))))

\* _generate_simple_parameter(param, lines)
generate_simple_parameter(param) ==
  Then(Index(param, <<"v", "a", "l", "u", "e">>),
  Then(LookUpType(DictGet(param.v, <<"t", "y", "p", "e">>)),
       format_value(DictGet(param.v, <<"v", "a", "l", "u", "e">>), DictGet(param.v, <<"t", "y", "p", "e">>))))

\* _generate_parameter(param, lines)
generate_parameter(param) ==
  Then(Index(param, <<"t", "y", "p", "e">>),
  Then(Index(param, <<"n", "a", "m", "e">>),
       IF IsStr(DictGet(param.v, <<"t", "y", "p", "e">>), <<"t", "a", "b", "l", "e">>)
       THEN generate_table_parameter(param)
       ELSE generate_simple_parameter(param)))

\* generate(param_data)
generate(param_data) ==
  Then(Index(param_data, <<"n", "a", "m", "e", "s", "p", "a", "c", "e">>),
  Then(Index(param_data, <<"p", "a", "r", "a", "m", "e", "t", "e", "r", "s">>),
  Then(IF DictGet(param_data.v, <<"n", "a", "m", "e", "s", "p", "a", "c", "e">>).t = "str" THEN Passed ELSE AttributeError,
  Then(Iterate(DictGet(param_data.v, <<"p", "a", "r", "a", "m", "e", "t", "e", "r", "s">>)),
       ForEach([i \in 1..Len(Each(DictGet(param_data.v, <<"p", "a", "r", "a", "m", "e", "t", "e", "r", "s">>))) |->
                  generate_parameter(DictGet(param_data.v, <<"p", "a", "r", "a", "m", "e", "t", "e", "r", "s">>).v[i])])))))

(***************************************************************************)
(* Parameter files, as the description the properties are stated on, and   *)
(* the value yaml.safe_load gives the validator for each.                  *)
(***************************************************************************)
MaxColumns == 2
MaxParameters == 2
MaxHeaders == 2

\* the spelling of the words of the descriptions
Spell ==
  [a |-> <<"a">>, b |-> <<"b">>, c |-> <<"c">>, d |-> <<"d">>,
   float |-> <<"f", "l", "o", "a", "t">>, integer |-> <<"i", "n", "t", "e", "g", "e", "r">>, string |-> <<"s", "t", "r", "i", "n", "g">>,
   boolean |-> <<"b", "o", "o", "l", "e", "a", "n">>, table |-> <<"t", "a", "b", "l", "e">>, double |-> <<"d", "o", "u", "b", "l", "e">>]

\* a value of each Python type
ValueKinds == {"int", "float", "str", "bool", "none", "list"}
Literal(kind) ==
  CASE kind = "int" -> PyInt(42)
    [] kind = "float" -> PyFloat(<<"1", ".", "5">>)
    [] kind = "str" -> PyStr(<<"x">>)
    [] kind = "bool" -> PyBool(TRUE)
    [] kind = "none" -> PyNone
    [] kind = "list" -> PyList(<<>>)

ScalarTypes == {"float", "integer", "string", "boolean"}

\* a column: a map with or without name and type, or not a map
Column(name, type) == [shape |-> "map", name |-> name, type |-> type]
\* a row: a list of cells, each the kind of its value, or not a list
Row(cells) == [shape |-> "list", cells |-> cells]
NotAList == [shape |-> "str", cells |-> <<>>]

\* a parameter; "absent" for a key that is not written
Parameter(name, type, value, columns, rows) ==
  [shape |-> "map", name |-> name, type |-> type, description |-> "d", value |-> value,
   columns |-> columns, rows |-> rows]
Absent == [shape |-> "absent", items |-> <<>>]
ListOf(items) == [shape |-> "list", items |-> items]
Scalar(name, type, value) == Parameter(name, type, value, Absent, Absent)
Table(name, columns, rows) == Parameter(name, "table", "absent", columns, rows)

NotAMap(kind) == [Scalar("absent", "absent", "absent") EXCEPT !.shape = kind]

\* a parameter file
Namespace(text) == [shape |-> "str", items |-> text]
ParameterFile(namespace, parameters) ==
  [shape |-> "map", schema_version |-> "1.0", namespace |-> Namespace(namespace),
   parameters |-> ListOf(parameters)]

\* d with d[key] = x when written is true
SetIf(d, written, key, x) == IF written THEN DictSet(d, key, x) ELSE d

BuildName(name) ==
  CASE name = "unhashable" -> PyList(<<PyStr(<<"a">>)>>)
    [] name = "number" -> PyInt(5)
    [] OTHER -> PyStr(Spell[name])

BuildColumn(col) ==
  CASE col.shape = "int" -> PyInt(5)
    [] col.shape = "str" -> PyStr(<<"n", "a", "m", "e", ":", " ", "c", ",", " ", "t", "y", "p", "e", ":", " ", "f", "l", "o", "a", "t">>)
    [] col.shape = "map" ->
         PyDict(SetIf(SetIf(EmptyDict, col.name # "absent", <<"n", "a", "m", "e">>, PyStr(<<"c">>)),
                      col.type # "absent", <<"t", "y", "p", "e">>,
                      IF col.type = "unhashable" THEN PyList(<<>>) ELSE PyStr(Spell[col.type])))

BuildRow(row) ==
  IF row.shape = "list" THEN PyList([i \in 1..Len(row.cells) |-> Literal(row.cells[i])])
  ELSE PyStr(<<"x">>)

BuildColumns(columns) ==
  IF columns.shape = "list"
  THEN PyList([i \in 1..Len(columns.items) |-> BuildColumn(columns.items[i])])
  ELSE PyStr(<<"c">>)

BuildRows(rows) ==
  IF rows.shape = "list" THEN PyList([i \in 1..Len(rows.items) |-> BuildRow(rows.items[i])])
  ELSE PyStr(<<"x">>)

BuildParameter(p) ==
  IF p.shape # "map" THEN Literal(p.shape)
  ELSE PyDict(
    SetIf(SetIf(SetIf(SetIf(SetIf(SetIf(EmptyDict,
      p.name # "absent", <<"n", "a", "m", "e">>, BuildName(p.name)),
      p.type # "absent", <<"t", "y", "p", "e">>,
        IF p.type = "unhashable" THEN PyList(<<>>) ELSE PyStr(Spell[p.type])),
      p.description # "absent", <<"d", "e", "s", "c", "r", "i", "p", "t", "i", "o", "n">>, PyStr(<<"d">>)),
      p.value # "absent", <<"v", "a", "l", "u", "e">>, Literal(p.value)),
      p.columns.shape # "absent", <<"c", "o", "l", "u", "m", "n", "s">>, BuildColumns(p.columns)),
      p.rows.shape # "absent", <<"r", "o", "w", "s">>, BuildRows(p.rows)))

\* the value loaded from the file
Build(f) ==
  IF f.shape # "map" THEN Literal(f.shape)
  ELSE PyDict(
    SetIf(SetIf(SetIf(EmptyDict,
      f.schema_version # "absent", <<"s", "c", "h", "e", "m", "a", "_", "v", "e", "r", "s", "i", "o", "n">>, PyStr(<<"1", ".", "0">>)),
      f.namespace.shape # "absent", <<"n", "a", "m", "e", "s", "p", "a", "c", "e">>,
        IF f.namespace.shape = "str" THEN PyStr(f.namespace.items) ELSE Literal(f.namespace.shape)),
      f.parameters.shape # "absent", <<"p", "a", "r", "a", "m", "e", "t", "e", "r", "s">>,
        IF f.parameters.shape = "list"
        THEN PyList([i \in 1..Len(f.parameters.items) |-> BuildParameter(f.parameters.items[i])])
        ELSE Literal(f.parameters.shape)))

(***************************************************************************)
(* The parameter files the validator is called on.                         *)
(***************************************************************************)
CellKinds == {"int", "float", "str", "bool"}

ScalarParameters ==
  {Scalar(n, t, v) : n \in {"a", "b"}, t \in ScalarTypes, v \in ValueKinds \cup {"absent"}}

OddParameters ==
  {Scalar("a", "double", "int"), Scalar("a", "absent", "int"), Scalar("absent", "float", "int"),
   [Scalar("a", "float", "int") EXCEPT !.description = "absent"],
   Scalar("unhashable", "float", "float"), Scalar("a", "unhashable", "int"),
   NotAMap("int"), NotAMap("str"), NotAMap("none")}

\* the column lists whose columns are maps with a name and a type that is not table
TypedColumns ==
  UNION {{[i \in 1..k |-> Column("c", ts[i])] : ts \in [1..k -> ScalarTypes]} :
           k \in 1..MaxColumns}

NotAMapColumn(kind) == [Column("absent", "absent") EXCEPT !.shape = kind]
OddColumnLists ==
  {Absent, [Absent EXCEPT !.shape = "str"], ListOf(<<>>),
   ListOf(<<Column("absent", "float")>>), ListOf(<<Column("c", "absent")>>),
   ListOf(<<Column("c", "table")>>), ListOf(<<Column("c", "double")>>),
   ListOf(<<Column("c", "unhashable")>>),
   ListOf(<<NotAMapColumn("int")>>), ListOf(<<NotAMapColumn("str")>>),
   ListOf(<<Column("c", "float"), Column("c", "table")>>)}

\* the kind of value of each type
KindOf(type) ==
  CASE type = "float" -> "float"
    [] type = "integer" -> "int"
    [] type = "string" -> "str"
    [] type = "boolean" -> "bool"

GoodRow(columns) == Row([i \in 1..Len(columns) |-> KindOf(columns[i].type)])

\* the rows tried against a column list: every combination of cell kinds, a row that
\* is too short, one that is too long, and one that is not a list
RowsFor(columns) ==
  {Row(cells) : cells \in [1..Len(columns) -> CellKinds]}
  \cup {Row([i \in 1..(Len(columns) - 1) |-> "int"]),
        Row([i \in 1..(Len(columns) + 1) |-> "int"]), NotAList}

RowListsFor(columns) ==
  {Absent, [Absent EXCEPT !.shape = "str"], ListOf(<<>>)}
  \cup {ListOf(<<r>>) : r \in RowsFor(columns)}
  \cup {ListOf(<<GoodRow(columns), r>>) : r \in RowsFor(columns)}

TableParameters ==
  UNION {{Table("a", ListOf(cs), rs) : rs \in RowListsFor(cs)} : cs \in TypedColumns}
  \cup {Table("a", cl, rs) :
          cl \in OddColumnLists, rs \in {Absent, ListOf(<<>>), ListOf(<<Row(<<"int">>)>>)}}

\* the parameters of the lists of several parameters
GoodTable(name) == Table(name, ListOf(<<Column("c", "float")>>), ListOf(<<Row(<<"float">>)>>))
ListParameters ==
  {Scalar("a", "float", "float"), Scalar("a", "string", "str"), Scalar("a", "integer", "str"),
   Scalar("b", "boolean", "bool"), GoodTable("a"), GoodTable("b"),
   Table("a", ListOf(<<NotAMapColumn("int")>>), ListOf(<<>>)),
   Scalar("unhashable", "float", "float"), Scalar("absent", "float", "float"),
   Scalar("number", "integer", "int"), GoodTable("number")}

ParameterLists ==
  {<<p>> : p \in ScalarParameters \cup OddParameters \cup TableParameters}
  \cup SeqsUpTo(ListParameters, MaxParameters)

Namespaces ==
  {<<"v", "e", "h", "i", "c", "l", "e", ".", "d", "y", "n", "a", "m", "i", "c", "s">>, <<"v", "e", "h", "i", "c", "l", "e", "_", "d", "y", "n", "a", "m", "i", "c", "s">>, <<"V", "e", "h", "i", "c", "l", "e", ".", "D", "y", "n", "a", "m", "i", "c", "s">>, <<"v", "e", "h", "i", "c", "l", "e">>, <<"a", ".", "b">>,
   <<"a", "_", "b">>, <<"_", "a", "1">>, <<"a", ".", "b", "\n">>, <<"1", "a">>, <<"a", ".", ".", "b">>, <<"a", " ", "b">>, <<".", "a">>, <<>>}

ParameterFiles ==
  {ParameterFile(<<"v", "e", "h", "i", "c", "l", "e", ".", "d", "y", "n", "a", "m", "i", "c", "s">>, ps) : ps \in ParameterLists}
  \cup {ParameterFile(ns, ps) : ns \in Namespaces, ps \in {<<>>, <<Scalar("a", "float", "float")>>}}
  \cup {[ParameterFile(<<"a", ".", "b">>, <<>>) EXCEPT !.schema_version = "absent"],
        [ParameterFile(<<"a", ".", "b">>, <<>>) EXCEPT !.namespace = Absent],
        [ParameterFile(<<"a", ".", "b">>, <<>>) EXCEPT !.namespace = [Absent EXCEPT !.shape = "int"]],
        [ParameterFile(<<"a", ".", "b">>, <<>>) EXCEPT !.parameters = Absent],
        [ParameterFile(<<"a", ".", "b">>, <<>>) EXCEPT !.parameters = [Absent EXCEPT !.shape = "str"]],
        [ParameterFile(<<"a", ".", "b">>, <<>>) EXCEPT !.shape = "none"]}
  \cup {[ParameterFile(<<"1", "a">>, ps) EXCEPT !.schema_version = v, !.namespace = n] :
          ps \in {<<>>, <<Scalar("a", "double", "int")>>},
          v \in {"1.0", "absent"}, n \in {Namespace(<<"1", "a">>), Absent}}

\* the namespaces ParameterValidator accepts
ValidNamespaces == {ns \in Namespaces : validate_namespace(PyStr(ns)) = Passed}

(***************************************************************************)
(* The validator and the generator called on their own: one call of        *)
(* validate on a parameter file; or up to MaxHeaders calls of the          *)
(* generator, each on a validated file, the guard of each kept in stdout.  *)
(***************************************************************************)
InitValidate ==
  /\ corpus = Corpus(Missing, Missing)
  /\ fs = EmptyWorkspace
  /\ argv = <<>>
  /\ pc = "idle"
  /\ idx = 1
  /\ errors = <<>>
  /\ all_errors = <<>>
  /\ stdout = <<>>
  /\ exit_code = -1
  /\ call = NoCall
  /\ ret = Passed

\* validator.validate(param_data)
Validate ==
  /\ pc = "idle"
  /\ stdout = <<>>
  /\ \E f \in ParameterFiles :
       /\ call' = [fn |-> "validate", data |-> f, param_data |-> Build(f)]
       /\ ret' = validate(Build(f))
  /\ pc' = "returned"
  /\ UNCHANGED <<corpus, fs, argv, idx, errors, all_errors, stdout, exit_code>>

\* generator.generate(param_data) on a file that was validated: the header guard
Generate ==
  /\ pc = "idle"
  /\ Len(stdout) < MaxHeaders
  /\ \E ns \in Namespaces :
       /\ validate(Build(ParameterFile(ns, <<>>))) = Passed
       /\ stdout' = Append(stdout, [type |-> "header_guard", namespace |-> ns,
                                    guard |-> generate_header_guard(ns)])
  /\ UNCHANGED <<corpus, fs, argv, pc, idx, errors, all_errors, exit_code, call, ret>>

\* generator.generate(param_data) on the file validate has accepted
GenerateHeader ==
  /\ pc = "returned"
  /\ call.fn = "validate"
  /\ ret = Passed
  /\ ret' = generate(call.param_data)
  /\ pc' = "generated"
  /\ UNCHANGED <<corpus, fs, argv, idx, errors, all_errors, stdout, exit_code, call>>

NextValidate ==
  \/ Validate
  \/ Generate
  \/ GenerateHeader

SpecValidate == InitValidate /\ [][NextValidate]_vars

(***************************************************************************)
(* fire/starlark/generate_report.py: generate_change_impact.  The data are *)
(* the pairs (req_id, frontmatter) of the requirement files read; the      *)
(* result is the list stale_requirements the report is written from.       *)
(***************************************************************************)
\* req_versions: the version of the last entry of the id that has one
VersionEntries(requirements_data, req_id) ==
  {i \in 1..Len(requirements_data) :
     /\ requirements_data[i].id = req_id
     /\ <<"v", "e", "r", "s", "i", "o", "n">> \in DOMAIN requirements_data[i].frontmatter.v}
CurrentVersion(requirements_data, req_id) ==
  requirements_data[Max(VersionEntries(requirements_data, req_id))].frontmatter.v[<<"v", "e", "r", "s", "i", "o", "n">>]

\* iterating over req_refs: the elements of a list; the characters of a str and the
\* keys of a dict, none of them a dict; a TypeError for any other value
Iterable(req_refs) == req_refs.t \in {"list", "str", "dict"}
Elements(req_refs) == IF req_refs.t = "list" THEN req_refs.v ELSE <<>>

\* the reference is compared with the current version of its parent
Tracked(ref) == IsDict(ref) /\ <<"i", "d">> \in DOMAIN ref.v /\ <<"v", "e", "r", "s", "i", "o", "n">> \in DOMAIN ref.v

IsStale(requirements_data, ref) ==
  /\ Tracked(ref)
  /\ ref.v[<<"i", "d">>].t = "str"
  /\ VersionEntries(requirements_data, ref.v[<<"i", "d">>].v) # {}
  /\ ~PyEq(CurrentVersion(requirements_data, ref.v[<<"i", "d">>].v), ref.v[<<"v", "e", "r", "s", "i", "o", "n">>])

StaleParent(requirements_data, ref) ==
  [id |-> ref.v[<<"i", "d">>], tracked |-> ref.v[<<"v", "e", "r", "s", "i", "o", "n">>],
   current |-> CurrentVersion(requirements_data, ref.v[<<"i", "d">>].v)]

\* the declared requirement references of a frontmatter, None when it has none
DeclaredRequirements(frontmatter) ==
  IF <<"r", "e", "f", "e", "r", "e", "n", "c", "e", "s">> \in DOMAIN frontmatter.v
     /\ IsDict(frontmatter.v[<<"r", "e", "f", "e", "r", "e", "n", "c", "e", "s">>])
     /\ <<"r", "e", "q", "u", "i", "r", "e", "m", "e", "n", "t", "s">> \in DOMAIN frontmatter.v[<<"r", "e", "f", "e", "r", "e", "n", "c", "e", "s">>].v
  THEN frontmatter.v[<<"r", "e", "f", "e", "r", "e", "n", "c", "e", "s">>].v[<<"r", "e", "q", "u", "i", "r", "e", "m", "e", "n", "t", "s">>]
  ELSE PyList(<<>>)

stale_parents(requirements_data, frontmatter) ==
  LET req_refs == Elements(DeclaredRequirements(frontmatter))
      stale == SelectSeq(req_refs, LAMBDA ref : IsStale(requirements_data, ref))
  IN [i \in 1..Len(stale) |-> StaleParent(requirements_data, stale[i])]

\* the loop raises: req_refs cannot be iterated, or the id of a reference cannot be hashed
ChangeImpactRaises(requirements_data) ==
  \E i \in 1..Len(requirements_data) :
    \/ ~Iterable(DeclaredRequirements(requirements_data[i].frontmatter))
    \/ \E j \in 1..Len(Elements(DeclaredRequirements(requirements_data[i].frontmatter))) :
         LET ref == Elements(DeclaredRequirements(requirements_data[i].frontmatter))[j]
         IN Tracked(ref) /\ Unhashable(ref.v[<<"i", "d">>])

generate_change_impact(requirements_data) ==
  IF ChangeImpactRaises(requirements_data)
  THEN [exc |-> "TypeError", stale_requirements |-> <<>>]
  ELSE LET stale == SelectSeq(requirements_data,
                              LAMBDA r : Len(stale_parents(requirements_data, r.frontmatter)) > 0)
       IN [exc |-> "none",
           stale_requirements |->
             [i \in 1..Len(stale) |->
                [id |-> stale[i].id,
                 title |-> DictGetOr(stale[i].frontmatter.v, <<"t", "i", "t", "l", "e">>, PyStr(<<>>)),
                 version |-> DictGetOr(stale[i].frontmatter.v, <<"v", "e", "r", "s", "i", "o", "n">>, PyStr(<<"-">>)),
                 stale_parents |-> stale_parents(requirements_data, stale[i].frontmatter)]]]

(***************************************************************************)
(* The input sets of the report: a requirement R1 and the references it    *)
(* declares, followed by the requirements it may refer to.                 *)
(***************************************************************************)
MaxRefs == 2
MaxParents == 2

\* a declared reference as written: a map with path and version (the shape the
\* cross-reference validator requires), a map with id and version, or a scalar
Reference(shape, parent, version) == [shape |-> shape, parent |-> parent, version |-> version]

References ==
  {Reference("path", <<"R", "2">>, <<"1">>), Reference("path", <<"R", "2">>, <<"2">>),
   Reference("path", <<"R", "9">>, <<"1">>), Reference("path", <<"R", "2">>, <<>>),
   Reference("id", <<"R", "2">>, <<"1">>), Reference("id", <<"R", "2">>, <<"2">>),
   Reference("id", <<"R", "9">>, <<"1">>), Reference("scalar", <<"R", "2">>, <<>>)}

\* a requirement of the input set: its id, its declared version ("" for none), what
\* stands under references, and the references of the list
Requirement(id, version, declares, refs) ==
  [id |-> id, version |-> version, declares |-> declares, refs |-> refs]

Children ==
  {Requirement(<<"R", "1">>, <<"1">>, "list", refs) : refs \in SeqsUpTo(References, MaxRefs)}
  \cup {Requirement(<<"R", "1">>, <<"1">>, d, <<>>) :
          d \in {"no_references", "scalar_references", "no_requirements", "int_requirements"}}

Parents ==
  {Requirement(<<"R", "2">>, v, "no_references", <<>>) : v \in {<<>>, <<"1">>, <<"2">>}}

InputSets == {<<c>> \o ps : c \in Children, ps \in SeqsUpTo(Parents, MaxParents)}

WithVersion(d, version) ==
  IF Len(version) = 0 THEN d ELSE DictSet(d, <<"v", "e", "r", "s", "i", "o", "n">>, PyInt(int(version)))

BuildReference(ref) ==
  CASE ref.shape = "path" ->
         PyDict(WithVersion(DictSet(EmptyDict, <<"p", "a", "t", "h">>,
                                    PyStr(<<"/", "r", "/">> \o ref.parent \o <<".", "m", "d">>)), ref.version))
    [] ref.shape = "id" ->
         PyDict(WithVersion(DictSet(EmptyDict, <<"i", "d">>, PyStr(ref.parent)), ref.version))
    [] OTHER -> PyStr(ref.parent)

BuildReferences(r) ==
  CASE r.declares = "list" ->
         PyDict(DictSet(EmptyDict, <<"r", "e", "q", "u", "i", "r", "e", "m", "e", "n", "t", "s">>,
                        PyList([i \in 1..Len(r.refs) |-> BuildReference(r.refs[i])])))
    [] r.declares = "scalar_references" -> PyStr(<<"n", "o", "n", "e">>)
    [] r.declares = "no_requirements" -> PyDict(DictSet(EmptyDict, <<"t", "e", "s", "t", "s">>, PyList(<<>>)))
    [] OTHER -> PyDict(DictSet(EmptyDict, <<"r", "e", "q", "u", "i", "r", "e", "m", "e", "n", "t", "s">>, PyInt(5)))

BuildRequirement(r) ==
  [id |-> r.id,
   frontmatter |->
     PyDict(IF r.declares = "no_references"
            THEN WithVersion(DictSet(EmptyDict, <<"i", "d">>, PyStr(r.id)), r.version)
            ELSE DictSet(WithVersion(DictSet(EmptyDict, <<"i", "d">>, PyStr(r.id)), r.version),
                         <<"r", "e", "f", "e", "r", "e", "n", "c", "e", "s">>, BuildReferences(r)))]

BuildInputSet(s) == [i \in 1..Len(s) |-> BuildRequirement(s[i])]

InitReport ==
  /\ corpus = Corpus(Missing, Missing)
  /\ fs = EmptyWorkspace
  /\ argv = <<>>
  /\ pc = "idle"
  /\ idx = 1
  /\ errors = <<>>
  /\ all_errors = <<>>
  /\ stdout = <<>>
  /\ exit_code = -1
  /\ call = NoCall
  /\ ret = [exc |-> "none", stale_requirements |-> <<>>]

\* generate_change_impact(requirements_data)
ChangeImpact ==
  /\ pc = "idle"
  /\ \E s \in InputSets :
       /\ call' = [fn |-> "generate_change_impact", data |-> s]
       /\ ret' = generate_change_impact(BuildInputSet(s))
  /\ pc' = "returned"
  /\ UNCHANGED <<corpus, fs, argv, idx, errors, all_errors, stdout, exit_code>>

NextReport == ChangeImpact

SpecReport == InitReport /\ [][NextReport]_vars

(***************************************************************************)
(* fire/tools/validate_parameters.py: main.  The run is followed step by   *)
(* step: the input is loaded, validated, the output file is opened for     *)
(* writing and the data are written to it as JSON.  The output file is     *)
(* absent, or holds what was written to it: "old" (the content it had      *)
(* before the run), "nothing", "partial" or "complete".                    *)
(***************************************************************************)
input_path == <<"/", "i", "n", ".", "y", "a", "m", "l">>
output_path == <<"/", "o", "u", "t", ".", "p", "a", "r", "a", "m", "s">>

\* a value json cannot write: the date yaml.safe_load gives for 2024-01-01
PyDate == [t |-> "date", v |-> <<"2", "0", "2", "4", "-", "0", "1", "-", "0", "1">>]

\* json.dump(value, f) writes the whole value
RECURSIVE Serializable(_)
Serializable(value) ==
  CASE value.t = "list" -> \A i \in 1..Len(value.v) : Serializable(value.v[i])
    [] value.t = "dict" -> \A k \in DOMAIN value.v : Serializable(value.v[k])
    [] value.t = "date" -> FALSE
    [] OTHER -> TRUE

Written(state, data) == [kind |-> "file", content |-> <<>>, written |-> state, data |-> data]
OldOutput == Written("old", PyNone)

\* the input file: missing, not YAML, or the text of a parameter file, with or
\* without the top-level key "since: 2024-01-01"
InputFile(state, file, dated) == [state |-> state, file |-> file, dated |-> dated]

ToolParameterFiles ==
  {ParameterFile(ns, ps) :
     ns \in {<<"a", ".", "b">>, <<"1", "a">>}, ps \in {<<>>} \cup {<<p>> : p \in ListParameters}}
  \cup {[ParameterFile(<<"a", ".", "b">>, <<>>) EXCEPT !.shape = "none"]}

InputFiles ==
  {InputFile("loaded", f, dated) : f \in ToolParameterFiles, dated \in BOOLEAN}
  \cup {InputFile(s, ParameterFile(<<"a", ".", "b">>, <<>>), FALSE) : s \in {"missing", "unparsable"}}

\* yaml.safe_load(f)
Loaded(input) ==
  IF input.dated /\ IsDict(Build(input.file))
  THEN PyDict(DictSet(Build(input.file).v, <<"s", "i", "n", "c", "e">>, PyDate))
  ELSE Build(input.file)

\* a run: its arguments, the input file, the output file before the run (present or
\* not), and whether the output file can be opened for writing
ToolRuns ==
  {[fn |-> "validate_parameters", argv |-> a, input |-> i, present |-> p, writable |-> w] :
     a \in {<<input_path, output_path>>, <<input_path>>},
     i \in InputFiles, p \in BOOLEAN, w \in BOOLEAN}

OutputBefore(run) == IF run.present THEN (output_path :> OldOutput) ELSE EmptyWorkspace

InitTool ==
  /\ corpus = Corpus(Missing, Missing)
  /\ \E run \in ToolRuns :
       /\ call = run
       /\ argv = run.argv
       /\ fs = OutputBefore(run)
  /\ pc = "start"
  /\ idx = 1
  /\ errors = <<>>
  /\ all_errors = <<>>
  /\ stdout = <<>>
  /\ exit_code = -1
  /\ ret = PyNone

Exit(code, message) ==
  /\ pc' = "exited"
  /\ exit_code' = code
  /\ stdout' = Append(stdout, message)

\* the number of arguments is wrong
ToolUsage ==
  /\ pc = "start"
  /\ Len(argv) # 2
  /\ Exit(1, "usage")
  /\ UNCHANGED <<corpus, fs, argv, idx, errors, all_errors, call, ret>>

\* open(input_path) and yaml.safe_load
ToolLoad ==
  /\ pc = "start"
  /\ Len(argv) = 2
  /\ IF call.input.state = "loaded"
     THEN /\ ret' = Loaded(call.input)
          /\ pc' = "loaded"
          /\ UNCHANGED <<stdout, exit_code>>
     ELSE /\ Exit(1, "error")
          /\ UNCHANGED ret
  /\ UNCHANGED <<corpus, fs, argv, idx, errors, all_errors, call>>

\* validator.validate(param_data)
ToolValidate ==
  /\ pc = "loaded"
  /\ IF validate(ret) = Passed
     THEN pc' = "validated" /\ UNCHANGED <<stdout, exit_code>>
     ELSE Exit(1, IF validate(ret).exc = "ValidationError" THEN "validation_failed" ELSE "error")
  /\ UNCHANGED <<corpus, fs, argv, idx, errors, all_errors, call, ret>>

\* open(output_path, "w"): the file is created, or emptied
ToolOpen ==
  /\ pc = "validated"
  /\ IF call.writable
     THEN /\ fs' = (output_path :> Written("nothing", PyNone))
          /\ pc' = "opened"
          /\ UNCHANGED <<stdout, exit_code>>
     ELSE /\ Exit(1, "error")
          /\ UNCHANGED fs
  /\ UNCHANGED <<corpus, argv, idx, errors, all_errors, call, ret>>

\* json.dump(param_data, f, indent=2), and the end of the run
ToolDump ==
  /\ pc = "opened"
  /\ IF Serializable(ret)
     THEN /\ fs' = (output_path :> Written("complete", ret))
          /\ Exit(0, "success")
     ELSE /\ fs' = (output_path :> Written("partial", ret))
          /\ Exit(1, "error")
  /\ UNCHANGED <<corpus, argv, idx, errors, all_errors, call, ret>>

NextTool ==
  \/ ToolUsage
  \/ ToolLoad
  \/ ToolValidate
  \/ ToolOpen
  \/ ToolDump

SpecTool == InitTool /\ [][NextTool]_vars

(***************************************************************************)
(* What a document's description says, for the properties below: the       *)
(* declared entries and the links of each kind, and what is known of the   *)
(* links' targets in Workspace.                                            *)
(***************************************************************************)
Kinds == {"param", "req", "test"}

\* the loop has validated a document; the last one it validated
Validated == idx > 1
LastDocument == corpus[requirement_files[idx - 1]]

\* the filesystem holds the files of Workspace
InWorkspace == \A p \in DOMAIN Workspace : p \in DOMAIN fs /\ fs[p] = Workspace[p]

LinksOf(d, k) == SelectSeq(d.links, LAMBDA l : l.kind = k)
Used(d, k) == {l.key : l \in Range(LinksOf(d, k))}

DeclaredList(d, k) ==
  CASE k = "param" -> d.params
    [] k = "req" -> [i \in 1..Len(d.reqs) |-> d.reqs[i].path]
    [] k = "test" -> d.tests
    [] k = "standard" -> d.standards
Declared(d, k) == Range(DeclaredList(d, k))

\* the entries of the catalogues of the shape "key: value", which parse_frontmatter
\* stores as a map and not as a str
MapShapedEntries == {<<"M", "I", "S", "R", "A", "-", "C", ":", "2", "0", "1", "2">>}

\* the entries of a declared list that the ordering check compares: all of the
\* requirements (by path), and of the other kinds those that are not map-shaped
SortableList(d, k) ==
  IF k = "req" THEN DeclaredList(d, k)
  ELSE SelectSeq(DeclaredList(d, k), LAMBDA e : e \notin MapShapedEntries)

InAscendingOrder(xs) == \A i \in 1..(Len(xs) - 1) : xs[i] = xs[i + 1] \/ StrLess(xs[i], xs[i + 1])

Count(xs, x) == Cardinality({i \in 1..Len(xs) : xs[i] = x})
IsPermutation(xs, ys) ==
  /\ Len(xs) = Len(ys)
  /\ \A x \in Range(xs) \cup Range(ys) : Count(xs, x) = Count(ys, x)

ErrorsOf(type) == SelectSeq(errors, LAMBDA e : e.type = type)

\* the links whose target exists in Workspace and agrees with the link text
ConsistentLinks ==
  {ParamGood, ParamGoodB, ParamLink(<<"b", "r", "a", "k", "e", "_", "d", "i", "s", "t", "a", "n", "c", "e">>, <<"/", "p", "a", "r", "a", "m", "s", "/", "b", "r", "a", "k", "e", ".", "b", "z", "l", "#", "b", "r", "a", "k", "e", "_", "d", "i", "s", "t", "a", "n", "c", "e">>),
   ReqGood, ReqVersioned, ReqInline, TestGood, TestGoodB}

\* the error with which the resolution of a link fails in Workspace
ExpectedFailure(l) ==
  CASE l = ParamMismatch -> "param_text_anchor_mismatch"
    [] l = ParamDangling -> "param_file_missing"
    [] l = ReqWrongId -> "req_id_mismatch"
    [] l = TestMismatch -> "test_text_target_mismatch"
    [] l = TestNoBuild -> "test_no_build_file"
    [] OTHER -> "none"

ResolutionFailures ==
  {"param_text_anchor_mismatch", "param_file_missing", "req_id_mismatch",
   "test_text_target_mismatch", "test_no_build_file"}

\* the body has exactly one link per declared entry, matched by id(link)
Mirrors(d, id(_)) ==
  \A k \in Kinds :
    /\ Len(LinksOf(d, k)) = Len(DeclaredList(d, k))
    /\ Cardinality(Declared(d, k)) = Len(DeclaredList(d, k))
    /\ {id(l) : l \in Range(LinksOf(d, k))} = Declared(d, k)

\* the identifier of a link as the text in its brackets (a requirement's entry is a path)
LinkName(l) == IF l.kind = "req" THEN l.key ELSE l.text
\* the identifier of a link as its target (without the version query)
LinkTarget(l) == l.key

WellFormed(d, kinds) ==
  /\ d.kind = "document"
  /\ \A k \in kinds : InAscendingOrder(DeclaredList(d, k))
  /\ \A i \in 1..Len(d.reqs) : Len(d.reqs[i].path) > 0 /\ Len(d.reqs[i].version) > 0
  /\ Range(d.links) \subseteq ConsistentLinks

UndeclaredType(k) ==
  CASE k = "param" -> "body_parameter_undeclared"
    [] k = "req" -> "body_requirement_undeclared"
    [] k = "test" -> "body_test_undeclared"
UnusedType(k) ==
  CASE k = "param" -> "declared_parameter_unused"
    [] k = "req" -> "declared_requirement_unused"
    [] k = "test" -> "declared_test_unused"

\* every requirement entry of the document names a path
EntriesHavePaths(d) == \A i \in 1..Len(d.reqs) : Len(d.reqs[i].path) > 0

(***************************************************************************)
(* C2.  For each of parameters, requirements and tests: when the declared  *)
(* set is the used set less one entry (an entry that is used was removed   *)
(* from a consistent document), exactly one "used but undeclared" error is *)
(* returned, naming that entry, however many links use it; when the used   *)
(* set is the declared set less one entry (an unused entry was added),     *)
(* exactly one "declared but unused" error is returned, naming that entry. *)
(***************************************************************************)
C2_OneErrorPerMissingEntry ==
  (Validated /\ LastDocument.kind = "document" /\ EntriesHavePaths(LastDocument))
    => \A k \in Kinds :
         /\ \A e \in Used(LastDocument, k) :
              Declared(LastDocument, k) = Used(LastDocument, k) \ {e}
                => /\ Len(ErrorsOf(UndeclaredType(k))) = 1
                   /\ ErrorsOf(UndeclaredType(k))[1].args = <<<<e>>>>
         /\ \A e \in Declared(LastDocument, k) :
              Used(LastDocument, k) = Declared(LastDocument, k) \ {e}
                => /\ Len(ErrorsOf(UnusedType(k))) = 1
                   /\ ErrorsOf(UnusedType(k))[1].args = <<<<e>>>>

\* an entry used by two links is not declared: one error
C2_Witness ==
  /\ Validated
  /\ LastDocument.kind = "document"
  /\ LastDocument.params = <<>>
  /\ LastDocument.links = <<ParamGood, ParamGood>>
  /\ Len(ErrorsOf("body_parameter_undeclared")) = 1

KindName(k) ==
  CASE k = "param" -> <<"p", "a", "r", "a", "m", "e", "t", "e", "r", "s">>
    [] k = "req" -> <<"r", "e", "q", "u", "i", "r", "e", "m", "e", "n", "t", "s">>
    [] k = "test" -> <<"t", "e", "s", "t", "s">>
    [] k = "standard" -> <<"s", "t", "a", "n", "d", "a", "r", "d", "s">>

OrderingErrors(k) ==
  SelectSeq(errors, LAMBDA e : e.type = "not_sorted" /\ e.args[1] = <<KindName(k)>>)

MissingPath(d) == {i \in 1..Len(d.reqs) : Len(d.reqs[i].path) = 0}
MissingVersion(d) == {i \in 1..Len(d.reqs) : Len(d.reqs[i].version) = 0}

C5_ExitStatusIffErrors ==
  (pc = "exited" /\ Len(requirement_files) >= 1)
    => /\ (exit_code # 0) <=> (Len(all_errors) # 0)
       /\ \A i \in 1..Len(all_errors) :
            all_errors[i].type \notin {"warning_version", "warning_no_version"}

(***************************************************************************)
(* C6 (as stated).  When the run has ended, every listed document has been *)
(* validated, in argument order, whatever the earlier documents produced.  *)
(***************************************************************************)
C6_EveryDocumentValidated ==
  (pc = "exited" /\ Len(requirement_files) >= 1) => idx = Len(requirement_files) + 1

\* the part of a target after its first "#", and whether it has one
HasAnchor(target) == \E i \in 1..Len(target) : target[i] = "#"
AnchorOf(target) == DropFirst(target, Min({i \in 1..Len(target) : target[i] = "#"}))

(***************************************************************************)
(* C7.  A parameter reference whose anchor, the part of the target after   *)
(* "#", differs from the link text fails with the text/anchor mismatch     *)
(* error, whether or not the file exists and defines the anchor.           *)
(***************************************************************************)
C7_AnchorMismatchAlwaysFails ==
  (pc = "returned" /\ call.fn = "param" /\ HasAnchor(call.target)
                   /\ AnchorOf(call.target) # call.text)
    => /\ ~ret.valid
       /\ ret.error.type = "param_text_anchor_mismatch"

\* the file exists and defines the anchor, and the link text is another name
C7_Witness ==
  /\ pc = "returned" /\ call.fn = "param"
  /\ fs = Workspace
  /\ call.target = <<"/", "p", ".", "b", "z", "l", "#", "b">> /\ call.text = <<"a">>
  /\ ret.error.type = "param_text_anchor_mismatch"

\* the path of a requirement target without its leading "/" and its fragment
TargetFile(target) ==
  LET at == {i \in 1..Len(target) : target[i] = "#"}
      path == IF at = {} THEN target ELSE Slice(target, 1, Min(at) - 1)
  IN os_path_join(workspace_root, StripLeadingSlash(path))

\* the ids the requirement documents of Workspace declare
DeclaredIds(file) ==
  CASE file = <<"/", "w", "/", "r", "/", "R", "2", ".", "m", "d">> -> {<<"R", "2">>}
    [] file = <<"/", "w", "/", "r", "/", "R", "3", ".", "m", "d">> -> {<<"R", "3">>}
    [] file = <<"/", "w", "/", "r", "/", "m", ".", "m", "d">> -> {<<"R", "4">>, <<"R", "1", "0">>}
    [] OTHER -> {}

\* the version a requirement document of Workspace declares for an id, "" when none
DeclaredVersion(file, id) ==
  CASE file = <<"/", "w", "/", "r", "/", "R", "2", ".", "m", "d">> /\ id = <<"R", "2">> -> <<"2">>
    [] file = <<"/", "w", "/", "r", "/", "m", ".", "m", "d">> /\ id = <<"R", "4">> -> <<"1">>
    [] file = <<"/", "w", "/", "r", "/", "m", ".", "m", "d">> /\ id = <<"R", "1", "0">> -> <<"3">>
    [] OTHER -> <<>>

RequirementDocuments == {<<"/", "w", "/", "r", "/", "R", "2", ".", "m", "d">>, <<"/", "w", "/", "r", "/", "R", "3", ".", "m", "d">>, <<"/", "w", "/", "r", "/", "m", ".", "m", "d">>}

(***************************************************************************)
(* C8 (as stated).  A requirement reference whose link text is not an id   *)
(* the target document declares fails with the link/ID mismatch error.     *)
(***************************************************************************)
C8_UndeclaredIdFails ==
  (pc = "returned" /\ call.fn = "req" /\ fs = Workspace
     /\ TargetFile(call.target) \in RequirementDocuments
     /\ call.text \notin DeclaredIds(TargetFile(call.target)))
    => /\ ~ret.valid
       /\ ret.error.type = "req_id_mismatch"

\* the label is "//", a package, ":" and the link text
WellFormedLabel(text, label) ==
  /\ Len(label) >= 2 /\ label[1] = "/" /\ label[2] = "/"
  /\ Cardinality({i \in 3..Len(label) : label[i] = ":"}) = 1
  /\ \E i \in 3..Len(label) : label[i] = ":" /\ DropFirst(label, i) = text

PackageOf(label) == Slice(label, 3, Min({i \in 3..Len(label) : label[i] = ":"}) - 1)

\* the build-declaration file of a package: BUILD.bazel if it exists, else BUILD
PackageFile(package) ==
  LET dir == os_path_join(workspace_root, package)
  IN IF os_path_join(dir, <<"B", "U", "I", "L", "D", ".", "b", "a", "z", "e", "l">>) \in DOMAIN fs THEN os_path_join(dir, <<"B", "U", "I", "L", "D", ".", "b", "a", "z", "e", "l">>)
     ELSE os_path_join(dir, <<"B", "U", "I", "L", "D">>)

Assigns(file, quote, target) ==
  /\ file \in DOMAIN fs
  /\ fs[file].kind = "file"
  /\ contains(fs[file].content, <<"n", "a", "m", "e", " ", "=", " ">> \o quote \o target \o quote)

\* the format checks reject the label whatever the filesystem holds
FormatRejected ==
  (pc = "returned" /\ call.fn = "test" /\ ~WellFormedLabel(call.text, call.target))
    => /\ ~ret.valid
       /\ ret.error.type \in {"test_label_format", "test_label_missing_colon",
                              "test_text_target_mismatch"}

C10_WarningIffVersionDiffers ==
  (pc = "returned" /\ call.fn = "req" /\ fs = Workspace
     /\ TargetFile(call.target) \in RequirementDocuments
     /\ call.text \in DeclaredIds(TargetFile(call.target)))
    => /\ ret.valid
       /\ (ret.warnings # <<>>)
            <=> /\ call.version # <<>>
                /\ DeclaredVersion(TargetFile(call.target), call.text) # call.version

(***************************************************************************)
(* Documents without metadata.                                             *)
(***************************************************************************)
NoMetadata(d) == d.kind \in {"plain", "enclosed"}

\* the links in the order in which they are resolved: parameters, requirements, tests
ResolutionOrder(d) == LinksOf(d, "param") \o LinksOf(d, "req") \o LinksOf(d, "test")

\* the errors with which the links fail in Workspace, one per failing link
FailuresOf(links) ==
  SelectSeq([i \in 1..Len(links) |-> ExpectedFailure(links[i])], LAMBDA t : t # "none")

(***************************************************************************)
(* C11.  When a document has no metadata (no block, a block that is never  *)
(* closed, or a block that holds no metadata), the error list returned by  *)
(* validate_requirement_file holds no ordering, schema or declared/used    *)
(* error: it is exactly the resolution errors of the links of the whole    *)
(* file content, one per failing link, parameters first, then              *)
(* requirements, then tests.                                               *)
(***************************************************************************)
C11_OnlyResolutionErrors ==
  (Validated /\ InWorkspace /\ NoMetadata(LastDocument))
    => /\ [i \in 1..Len(errors) |-> errors[i].type] = FailuresOf(ResolutionOrder(LastDocument))
       /\ \A i \in 1..Len(errors) : errors[i].file = requirement_files[idx - 1]

C11_Witness ==
  /\ Validated /\ InWorkspace
  /\ LastDocument = Enclosed(<<ParamDangling, ParamGood>>)
  /\ Len(errors) = 1
  /\ errors[1].type = "param_file_missing"

C11_WitnessUnclosed ==
  /\ Validated /\ InWorkspace
  /\ LastDocument = Plain(<<"-", "-", "-", "\n", "i", "d", ":", " ", "R", "1", "\n">>, <<TestNoBuild, ParamDangling>>)
  /\ [i \in 1..Len(errors) |-> errors[i].type] = <<"param_file_missing", "test_no_build_file">>

(***************************************************************************)
(* Direct calls of the parsers.                                            *)
(***************************************************************************)
ParsedFrontmatter == pc = "returned" /\ call.fn = "parse_frontmatter"
ParsedInline == pc = "returned" /\ call.fn = "parse_inline_yaml_for_requirement"

\* the first line of the text is the delimiter and so is some later line
FramedByDelimiters(text) ==
  LET lines == split(text, "\n")
  IN /\ lines[1] = <<"-", "-", "-">>
     /\ \E i \in 2..Len(lines) : lines[i] = <<"-", "-", "-">>

(***************************************************************************)
(* C12.  parse_frontmatter recognises a metadata block exactly when the    *)
(* first line of its input consists solely of --- and some later line      *)
(* consists solely of ---; in every other case it returns absent metadata  *)
(* and the entire, unmodified input as the body, and never raises.         *)
(***************************************************************************)
C12_RecognisedIffDelimited ==
  ParsedFrontmatter
    => /\ ~ret.raised
       /\ (ret.frontmatter.t # "none") <=> FramedByDelimiters(call.text)
       /\ (ret.frontmatter.t = "none") => ret.body = call.text

(***************************************************************************)
(* The entries of references.requirements.                                 *)
(***************************************************************************)
\* an error of the type, whose first argument is x, has been returned
Reported(type, x) == \E i \in 1..Len(errors) : errors[i].type = type /\ errors[i].args[1] = <<x>>

PathMissingOrEmpty(e) == ~e.has_path \/ Len(e.path) = 0

(***************************************************************************)
(* C13.  Every entry under references.requirements must be a map with both *)
(* path and version: for an entry that is a map, a path that is missing or *)
(* empty is reported with an error naming the entry's position, and so is  *)
(* a missing version (an entry lacking both gets both errors); an entry    *)
(* that is not a map is reported with a format error.                      *)
(***************************************************************************)
C13_EveryEntryDefectReported ==
  (Validated /\ LastDocument.kind = "schema")
    => \A i \in 1..Len(LastDocument.reqs) :
         LET e == LastDocument.reqs[i]
         IN IF e.is_map
            THEN /\ PathMissingOrEmpty(e) => Reported("requirement_missing_path", str(i))
                 /\ ~e.has_version => Reported("requirement_missing_version", str(i))
            ELSE Reported("requirement_not_dict", e.path)

(***************************************************************************)
(* references.standards.                                                   *)
(***************************************************************************)
WithoutStandards(d) == [d EXCEPT !.standards = <<>>]

\* the errors returned, less the ordering error of the standards
ErrorsButStandardsOrder ==
  SelectSeq(errors, LAMBDA e : ~(e.type = "not_sorted" /\ e.args[1] = <<<<"s", "t", "a", "n", "d", "a", "r", "d", "s">>>>))

\* the lists validate_requirement_file can return for the last document once its
\* standards entries are removed
ErrorListsWithoutStandards ==
  LET file_path == requirement_files[idx - 1]
      files == [fs EXCEPT ![file_path] = File(Render(WithoutStandards(LastDocument)))]
  IN {r.errors : r \in {x \in validate_requirement_file(file_path, argv[1], files) : ~x.raised}}

(***************************************************************************)
(* C14.  The contents of references.standards produce no declared/used     *)
(* consistency error and no resolution error: the error list of a document *)
(* whose standards list is sorted is an error list of the same document    *)
(* without its standards entries (so adding, removing or changing entries  *)
(* of a sorted list leaves the list unchanged), and the only error an      *)
(* unsorted standards list adds is its ordering error.                     *)
(***************************************************************************)
C14_StandardsLeaveErrorsUnchanged ==
  (Validated /\ LastDocument.kind = "document")
    => /\ ErrorsButStandardsOrder \in ErrorListsWithoutStandards
       /\ InAscendingOrder(LastDocument.standards) => errors \in ErrorListsWithoutStandards

C14_Witness ==
  /\ Validated /\ InWorkspace
  /\ LastDocument.kind = "document"
  /\ LastDocument.standards = <<<<"I", "S", "O", " ", "2", "6", "2", "6", "2", ":", "2", "0", "1", "8">>, <<"M", "I", "S", "R", "A", " ", "C">>>>
  /\ ErrorsOf("test_no_build_file") # <<>>
  /\ ErrorsOf("body_test_undeclared") # <<>>
  /\ errors \in ErrorListsWithoutStandards

\* some scalar of the parsed value is a str made of digits only
RECURSIVE HasDigitString(_)
HasDigitString(x) ==
  CASE x.t = "str" -> isdigit(x.v)
    [] x.t = "list" -> \E i \in 1..Len(x.v) : HasDigitString(x.v[i])
    [] x.t = "dict" -> \E k \in DOMAIN x.v : HasDigitString(x.v[k])
    [] OTHER -> FALSE

(***************************************************************************)
(* C16.  Every scalar value recognised by the metadata parsers             *)
(* (parse_frontmatter and parse_inline_yaml_for_requirement) that consists *)
(* solely of digits is stored in the parsed metadata as an integer: the    *)
(* parsed metadata holds no str made of digits only.                       *)
(***************************************************************************)
C16_DigitsStoredAsInteger ==
  (ParsedFrontmatter \/ ParsedInline) => ~HasDigitString(ret.frontmatter)

(***************************************************************************)
(* Direct calls of ParameterValidator.validate.                            *)
(***************************************************************************)
ValidatedFile == pc = "returned" /\ call.fn = "validate"

\* the file validated is well-formed but for its only parameter
SingleParameter ==
  /\ ValidatedFile
  /\ call.data.shape = "map"
  /\ call.data.schema_version # "absent"
  /\ call.data.namespace = Namespace(<<"v", "e", "h", "i", "c", "l", "e", ".", "d", "y", "n", "a", "m", "i", "c", "s">>)
  /\ call.data.parameters.shape = "list"
  /\ Len(call.data.parameters.items) = 1
OnlyParameter == call.data.parameters.items[1]

\* a parameter that is not a table, with all its fields
IsScalar(p) ==
  /\ p.shape = "map"
  /\ p.name \in {"a", "b"}
  /\ p.type \in ScalarTypes
  /\ p.description # "absent"
  /\ p.value # "absent"

\* a value of the kind is of the declared type: a number (not a boolean) for float,
\* an integer (not a boolean) for integer, a str for string, a boolean for boolean
OfType(kind, type) ==
  CASE type = "float" -> kind \in {"int", "float"}
    [] type = "integer" -> kind = "int"
    [] type = "string" -> kind = "str"
    [] type = "boolean" -> kind = "bool"

\* the column list of a table is a non-empty list of maps with a name and a type that
\* is not table
HasTypedColumns(p) ==
  /\ p.columns.shape = "list"
  /\ Len(p.columns.items) > 0
  /\ \A i \in 1..Len(p.columns.items) :
       LET col == p.columns.items[i]
       IN col.shape = "map" /\ col.name # "absent" /\ col.type \in ScalarTypes

\* every row is a list with as many cells as there are columns
HasFullRows(p) ==
  /\ p.rows.shape = "list"
  /\ \A i \in 1..Len(p.rows.items) :
       /\ p.rows.items[i].shape = "list"
       /\ Len(p.rows.items[i].cells) = Len(p.columns.items)

IsTable(p) ==
  p.shape = "map" /\ p.name \in {"a", "b"} /\ p.type = "table" /\ p.description # "absent"

\* every cell is of its column's type
CellsOfType(p) ==
  \A i \in 1..Len(p.rows.items) :
    \A j \in 1..Len(p.rows.items[i].cells) :
      OfType(p.rows.items[i].cells[j], p.columns.items[j].type)

(***************************************************************************)
(* C17.  validate raises ValidationError for every non-table parameter     *)
(* whose value is not of the declared type, and for every table with a     *)
(* cell that is not of its column's type: a non-number for float, a        *)
(* non-integer for integer, a non-string for string, a non-boolean for     *)
(* boolean, a boolean never being accepted for float or integer; values of *)
(* the declared type are accepted.                                         *)
(***************************************************************************)
C17_ValueOfDeclaredTypeOrError ==
  /\ (SingleParameter /\ IsScalar(OnlyParameter))
       => IF OfType(OnlyParameter.value, OnlyParameter.type)
          THEN ret = Passed ELSE ret.exc = "ValidationError"
  /\ (SingleParameter /\ IsTable(OnlyParameter) /\ HasTypedColumns(OnlyParameter)
        /\ HasFullRows(OnlyParameter))
       => IF CellsOfType(OnlyParameter)
          THEN ret = Passed ELSE ret.exc = "ValidationError"

\* the rows that are lists with a number of cells that is not the number of columns
WrongLengthRows(p) ==
  {i \in 1..Len(p.rows.items) :
     p.rows.items[i].shape = "list" /\ Len(p.rows.items[i].cells) # Len(p.columns.items)}

\* the first defect of the table is the length of a row
FirstDefectIsRowLength(p) ==
  /\ HasTypedColumns(p)
  /\ p.rows.shape = "list"
  /\ WrongLengthRows(p) # {}
  /\ \A i \in 1..(Min(WrongLengthRows(p)) - 1) :
       /\ p.rows.items[i].shape = "list"
       /\ \A j \in 1..Len(p.rows.items[i].cells) :
            OfType(p.rows.items[i].cells[j], p.columns.items[j].type)

WellFormedTable(p) == HasTypedColumns(p) /\ HasFullRows(p) /\ CellsOfType(p)

(***************************************************************************)
(* C18.  validate accepts a table parameter only if it has a non-empty     *)
(* column list whose columns each have a name and a type that is not       *)
(* table, every row is a list with exactly as many cells as there are      *)
(* columns, and every cell is of its column's type; any violation raises   *)
(* ValidationError, a row of the wrong length with the message that        *)
(* mentions the columns.                                                   *)
(***************************************************************************)
C18_TableAcceptedOnlyIfWellFormed ==
  (SingleParameter /\ IsTable(OnlyParameter))
    => /\ ret = Passed => WellFormedTable(OnlyParameter)
       /\ ~WellFormedTable(OnlyParameter) => ret.exc = "ValidationError"
       /\ FirstDefectIsRowLength(OnlyParameter) => ret = ValidationError("row_length")

\* the file validated is well-formed but for the parameters of its list
ParameterList ==
  /\ ValidatedFile
  /\ call.data.shape = "map"
  /\ call.data.schema_version # "absent"
  /\ call.data.namespace = Namespace(<<"v", "e", "h", "i", "c", "l", "e", ".", "d", "y", "n", "a", "m", "i", "c", "s">>)
  /\ call.data.parameters.shape = "list"

\* two entries of the list have the same name
SharedName ==
  LET ps == call.data.parameters.items
  IN \E i, j \in 1..Len(ps) :
       /\ i < j
       /\ ps[i].shape = "map" /\ ps[j].shape = "map"
       /\ ps[i].name # "absent" /\ ps[i].name = ps[j].name

(***************************************************************************)
(* C19.  validate accepts a parameter list only if its parameter names are *)
(* pairwise distinct: whenever two entries share a name, validate raises   *)
(* ValidationError, whatever their positions, types and values.            *)
(***************************************************************************)
C19_SharedNameRaisesValidationError ==
  (ParameterList /\ SharedName) => ret.exc = "ValidationError"

(***************************************************************************)
(* C20.  The header guard generated by CppGenerator is unique per          *)
(* namespace: the guards generated for two different namespaces that       *)
(* ParameterValidator accepts are different; and the guard generated for   *)
(* vehicle.dynamics is VEHICLE_DYNAMICS_PARAMS_H.                          *)
(***************************************************************************)
C20_HeaderGuardUniquePerNamespace ==
  \A i, j \in 1..Len(stdout) :
    (stdout[i].type = "header_guard" /\ stdout[j].type = "header_guard")
      => /\ stdout[i].namespace # stdout[j].namespace => stdout[i].guard # stdout[j].guard
         /\ stdout[i].namespace = <<"v", "e", "h", "i", "c", "l", "e", ".", "d", "y", "n", "a", "m", "i", "c", "s">>
              => stdout[i].guard = <<"V", "E", "H", "I", "C", "L", "E", "_", "D", "Y", "N", "A", "M", "I", "C", "S", "_", "P", "A", "R", "A", "M", "S", "_", "H">>

(***************************************************************************)
(* The lists another run of validate_requirement_file, in this or another  *)
(* process, can return for the last document and the same filesystem.      *)
(***************************************************************************)
OtherRuns == validate_requirement_file(requirement_files[idx - 1], argv[1], fs)

(***************************************************************************)
(* C21.  The errors validate_requirement_file returns, and their order,    *)
(* are a function of the document and the filesystem only: every other     *)
(* validation of the same document against the same filesystem, in the     *)
(* same or in another process, returns the same list, error for error and  *)
(* in the same order.                                                      *)
(***************************************************************************)
C21_SameErrorsInSameOrder ==
  Validated => \A r \in OtherRuns : ~r.raised /\ r.errors = errors

(***************************************************************************)
(* The containers of the parsed metadata.                                  *)
(***************************************************************************)
\* two Python values of the same type and content
SameValue(x, y) == x.t = y.t /\ x.v = y.v

\* frontmatter[key], and frontmatter[key][nested], None when there is none
TopLevel(key) ==
  IF ret.frontmatter.t = "dict" THEN DictGet(ret.frontmatter.v, key) ELSE PyNone
Nested(key, nested) ==
  IF TopLevel(key).t = "dict" THEN DictGet(TopLevel(key).v, nested) ELSE PyNone

(***************************************************************************)
(* C22.  In parse_frontmatter a key line with an empty value opens a       *)
(* container whose kind the next, more-indented line decides: a list if    *)
(* that line is a list item, a map otherwise; for a top-level key and for  *)
(* a key nested under references alike, so the list items written directly *)
(* under a top-level key are kept as that key's list.                      *)
(***************************************************************************)
C22_ContainerKindByLookAhead ==
  ParsedFrontmatter
    => /\ call.text = Framed(TopLevelList)
            => SameValue(TopLevel(<<"t", "a", "g", "s">>), PyList(<<PyStr(<<"a">>), PyStr(<<"b">>)>>))
       /\ call.text = Framed(TopLevelMap)
            => SameValue(TopLevel(<<"m", "e", "t", "a">>), PyDict(DictSet(EmptyDict, <<"o", "w", "n", "e", "r">>, PyStr(<<"x">>))))
       /\ call.text = Framed(NestedList)
            => SameValue(Nested(<<"r", "e", "f", "e", "r", "e", "n", "c", "e", "s">>, <<"p", "a", "r", "a", "m", "e", "t", "e", "r", "s">>),
                         PyList(<<PyStr(<<"a">>), PyStr(<<"b">>)>>))
       /\ call.text = Framed(NestedMap)
            => SameValue(Nested(<<"r", "e", "f", "e", "r", "e", "n", "c", "e", "s">>, <<"m", "e", "t", "a">>),
                         PyDict(DictSet(EmptyDict, <<"o", "w", "n", "e", "r">>, PyStr(<<"x">>))))

(***************************************************************************)
(* Sibling reference kinds after a multi-line map item.                    *)
(***************************************************************************)
\* the map item {path: /r/R2.md, version: '2'} of SiblingBlock
SiblingItem ==
  PyDict(DictSet(DictSet(EmptyDict, <<"p", "a", "t", "h">>, PyStr(<<"/", "r", "/", "R", "2", ".", "m", "d">>)), <<"v", "e", "r", "s", "i", "o", "n">>, PyStr(<<"2">>)))

(***************************************************************************)
(* C23.  In parse_frontmatter, after a multi-line map item of a list under *)
(* references, a key line at the indentation of the reference-kind keys    *)
(* starts a new reference kind, and the list items after it are appended   *)
(* to that kind, whether the document indents by 2, 3 or 4 spaces: the     *)
(* map item keeps its own keys only.                                       *)
(***************************************************************************)
C23_SiblingKeyStartsNewKind ==
  \A w \in IndentWidths :
    (ParsedFrontmatter /\ call.text = Framed(SiblingBlock(w)))
      => /\ SameValue(Nested(<<"r", "e", "f", "e", "r", "e", "n", "c", "e", "s">>, <<"r", "e", "q", "u", "i", "r", "e", "m", "e", "n", "t", "s">>), PyList(<<SiblingItem>>))
         /\ SameValue(Nested(<<"r", "e", "f", "e", "r", "e", "n", "c", "e", "s">>, <<"t", "e", "s", "t", "s">>), PyList(<<PyStr(<<"/", "/", "t", ":", "a">>)>>))

(***************************************************************************)
(* The fallback lookup of a requirement in a document without metadata.    *)
(***************************************************************************)
\* the ids the "## " heading lines of a text name
HeadingIds(content) ==
  LET lines == split(content, "\n")
  IN {strip(Slice(lines[i], 4, Len(lines[i]))) :
        i \in {j \in 1..Len(lines) : startswith(lines[j], <<"#", "#", " ">>)}}

\* a requirement reference was resolved against a readable document of
\* Workspace that has no metadata block
ResolvedByFallback ==
  /\ pc = "returned" /\ call.fn = "req" /\ fs = Workspace
  /\ TargetFile(call.target) \in DOMAIN fs
  /\ fs[TargetFile(call.target)].kind = "file"
  /\ endswith(TargetFile(call.target), <<".", "m", "d">>)
  /\ ~startswith(fs[TargetFile(call.target)].content, <<"-", "-", "-">>)

(***************************************************************************)
(* C24.  The fallback requirement lookup accepts a document for id X only  *)
(* if a heading line of the document names exactly X: a document whose     *)
(* headings all name other ids, such as R10 when X is R1, does not resolve *)
(* a reference to X.                                                       *)
(***************************************************************************)
C24_OnlyExactHeadingResolves ==
  (ResolvedByFallback
     /\ call.text \notin HeadingIds(fs[TargetFile(call.target)].content))
    => ~ret.valid

(***************************************************************************)
(* The build-declaration files of a package.                               *)
(***************************************************************************)
\* the files of a package with a recognised name
RecognisedFiles(package) ==
  {os_path_join(os_path_join(workspace_root, package), name) :
     name \in {<<"B", "U", "I", "L", "D", ".", "b", "a", "z", "e", "l">>, <<"B", "U", "I", "L", "D">>}}

(***************************************************************************)
(* C25.  A well-formed test reference whose link text equals its target    *)
(* name resolves if and only if some file named BUILD.bazel or BUILD in    *)
(* the package directory of the label holds a name assignment of the       *)
(* target; so a target that BUILD defines resolves even when a BUILD.bazel *)
(* without it exists too.                                                  *)
(***************************************************************************)
C25_AnyRecognisedFileDecides ==
  (pc = "returned" /\ call.fn = "test" /\ WellFormedLabel(call.text, call.target))
    => (ret.valid <=> \E file \in RecognisedFiles(PackageOf(call.target)) :
                        \/ Assigns(file, <<"\"">>, call.text)
                        \/ Assigns(file, <<"'">>, call.text))

(***************************************************************************)
(* Repeated links of a body.                                               *)
(***************************************************************************)
\* the documents written from a description whose only links are those of its body
HasLinks(d) == d.kind \in {"document", "plain", "schema", "labelled"}

\* the kinds a link is extracted as
KindsOf(l) == IF l.kind = "label" THEN {"req", "test"} ELSE {l.kind}
LinksIn(d, k) == SelectSeq(d.links, LAMBDA l : k \in KindsOf(l))

\* the references extract_markdown_references finds in the text of a document
Extracted(d) == extract_markdown_references(Render(d))

\* the number of times a link occurs in the body of a document
Occurs(d, l) == Cardinality({i \in 1..Len(d.links) : d.links[i] = l})

\* the extracted references of every kind are the links of the kind, in their order
\* and with their repetitions
ExtractedInOrder(d) ==
  /\ [i \in 1..Len(Extracted(d).param_refs) |->
        <<Extracted(d).param_refs[i].name, Extracted(d).param_refs[i].path>>]
       = [i \in 1..Len(LinksIn(d, "param")) |->
            <<LinksIn(d, "param")[i].text, LinksIn(d, "param")[i].target>>]
  /\ [i \in 1..Len(Extracted(d).req_refs) |->
        <<Extracted(d).req_refs[i].id, Extracted(d).req_refs[i].path>>]
       = [i \in 1..Len(LinksIn(d, "req")) |->
            <<LinksIn(d, "req")[i].text, LinksIn(d, "req")[i].key>>]
  /\ [i \in 1..Len(Extracted(d).test_refs) |->
        <<Extracted(d).test_refs[i].name, Extracted(d).test_refs[i].label>>]
       = [i \in 1..Len(LinksIn(d, "test")) |->
            <<LinksIn(d, "test")[i].text, LinksIn(d, "test")[i].target>>]

\* the resolution error of a link as a reference of a kind, "none" if it resolves
FailureAs(l, k) ==
  IF l.kind # "label" THEN ExpectedFailure(l)
  ELSE IF k = "req" THEN "req_extension" ELSE "test_no_build_file"

\* the "used but undeclared" errors that carry a value
UndeclaredErrors(value) ==
  SelectSeq(errors, LAMBDA e : /\ e.type \in {UndeclaredType(k) : k \in Kinds}
                               /\ e.args = <<<<value>>>>)

ReportGenerated == pc = "returned" /\ call.fn = "generate_change_impact"

\* the report lists the requirement as having a stale parent
ListedAsStale(req_id) ==
  \E i \in 1..Len(ret.stale_requirements) : ret.stale_requirements[i].id = req_id

\* the version the input set currently declares for an id, "" when it declares none
CurrentlyDeclared(s, req_id) ==
  LET declaring == {i \in 1..Len(s) : s[i].id = req_id /\ Len(s[i].version) > 0}
  IN IF declaring = {} THEN <<>> ELSE s[Max(declaring)].version

\* a reference of the validator's shape records another version than the current one
\* of a requirement of the input set
RecordsOldVersion(s, ref) ==
  /\ ref.shape = "path" /\ Len(ref.version) > 0
  /\ Len(CurrentlyDeclared(s, ref.parent)) > 0
  /\ CurrentlyDeclared(s, ref.parent) # ref.version

(***************************************************************************)
(* C27.  The change-impact report lists a requirement as having a stale    *)
(* parent exactly when one of its declared requirement references, in the  *)
(* map shape the cross-reference validator requires (path and version),    *)
(* records a version that differs from the current declared version of the *)
(* referenced requirement in the input set; a reference to a requirement   *)
(* outside the input set is never reported.                                *)
(***************************************************************************)
C27_StaleIffRecordedVersionDiffers ==
  (ReportGenerated /\ ret.exc = "none")
    => \A i \in 1..Len(call.data) :
         ListedAsStale(call.data[i].id)
           <=> \E j \in 1..Len(call.data[i].refs) :
                 RecordsOldVersion(call.data, call.data[i].refs[j])

(***************************************************************************)
(* The output file of the validate_parameters tool.                        *)
(***************************************************************************)
ToolRun == call.fn = "validate_parameters"

\* the output file is as it was before the run: neither created nor modified
OutputUntouched == fs = OutputBefore(call)

(***************************************************************************)
(* C28.  The validate_parameters tool writes the output file only after    *)
(* validate has succeeded on the loaded data: when the tool exits with a   *)
(* nonzero status the output file has been neither created nor modified,   *)
(* and when it exits with status zero the output file holds the complete   *)
(* validated data.                                                         *)
(***************************************************************************)
C28_OutputOnlyOnSuccess ==
  ToolRun
    => /\ ~OutputUntouched => (ret.t # "none" /\ validate(ret) = Passed)
       /\ (pc = "exited" /\ exit_code # 0) => OutputUntouched
       /\ (pc = "exited" /\ exit_code = 0)
            => /\ validate(ret) = Passed
               /\ fs = (output_path :> Written("complete", ret))

(***************************************************************************)
(* C29.  Every parameter data structure that ParameterValidator.validate   *)
(* accepts is turned into a header by CppGenerator.generate without        *)
(* raising.                                                                *)
(***************************************************************************)
C29_AcceptedDataGenerates ==
  (pc = "generated" /\ call.fn = "validate") => ret.exc = "none"

(***************************************************************************)
(* The order of the checks of validate.                                    *)
(***************************************************************************)
\* the required top-level fields a parameter file does not have, in the order checked
AbsentFields(f) ==
  SelectSeq(<<<<"s", "c", "h", "e", "m", "a", "_", "v", "e", "r", "s", "i", "o", "n">>, <<"n", "a", "m", "e", "s", "p", "a", "c", "e">>, <<"p", "a", "r", "a", "m", "e", "t", "e", "r", "s">>>>,
            LAMBDA field :
              \/ field = <<"s", "c", "h", "e", "m", "a", "_", "v", "e", "r", "s", "i", "o", "n">> /\ f.schema_version = "absent"
              \/ field = <<"n", "a", "m", "e", "s", "p", "a", "c", "e">> /\ f.namespace.shape = "absent"
              \/ field = <<"p", "a", "r", "a", "m", "e", "t", "e", "r", "s">> /\ f.parameters.shape = "absent")

\* the field the "Missing required field" message names
NamedField(param_data) ==
  <<<<"s", "c", "h", "e", "m", "a", "_", "v", "e", "r", "s", "i", "o", "n">>, <<"n", "a", "m", "e", "s", "p", "a", "c", "e">>, <<"p", "a", "r", "a", "m", "e", "t", "e", "r", "s">>>>[
     MissingField(param_data, <<<<"s", "c", "h", "e", "m", "a", "_", "v", "e", "r", "s", "i", "o", "n">>, <<"n", "a", "m", "e", "s", "p", "a", "c", "e">>, <<"p", "a", "r", "a", "m", "e", "t", "e", "r", "s">>>>)]

\* the outcome of validate on the file with the i-th of its parameters alone
Alone(f, i) == validate(Build([f EXCEPT !.parameters = ListOf(<<f.parameters.items[i]>>)]))

\* the file validated is a map with all the required fields
Complete == ValidatedFile /\ call.data.shape = "map" /\ AbsentFields(call.data) = <<>>

(***************************************************************************)
(* C30.  validate is fail-fast in a fixed order: the required top-level    *)
(* fields, naming the first that is missing, then the namespace format,    *)
(* then the parameters in list order, the own checks of each parameter     *)
(* before its duplicate-name check; it raises ValidationError for the      *)
(* first violation in that order.                                          *)
(***************************************************************************)
C30_ValidationErrorForFirstViolation ==
  ValidatedFile
    => /\ ret.exc \in {"none", "ValidationError"}
       /\ (call.data.shape = "map" /\ AbsentFields(call.data) # <<>>)
            => /\ ret = ValidationError("missing_required_field")
               /\ NamedField(call.param_data) = AbsentFields(call.data)[1]
       /\ (Complete /\ validate_namespace(call.param_data.v[<<"n", "a", "m", "e", "s", "p", "a", "c", "e">>]) # Passed)
            => ret = validate_namespace(call.param_data.v[<<"n", "a", "m", "e", "s", "p", "a", "c", "e">>])
       /\ (Complete /\ validate_namespace(call.param_data.v[<<"n", "a", "m", "e", "s", "p", "a", "c", "e">>]) = Passed
             /\ call.data.parameters.shape = "list")
            => \A i \in 1..Len(call.data.parameters.items) :
                 ((\A j \in 1..(i - 1) : Alone(call.data, j) = Passed)
                    /\ Alone(call.data, i) # Passed)
                   => ret = Alone(call.data, i)
=============================================================================
